---- MODULE Spec2Model ----
(***************************************************************************)
(* Model of the document ingestion pipeline of voice_agent_api:            *)
(*   - the embedding client (rag/rag/nomic_embedding.py, embedding.py),    *)
(*   - the document parser's entry point (rag/rag/document_parser.py),     *)
(*   - the orchestrator RAGProcessor.process_file (rag/rag/processor.py),  *)
(*   - the vector store's batch insert (rag/rag/storage.py),               *)
(*   - the questionnaire generator (rag/rag/questionnaire_generator.py),   *)
(*   - the service entry insert_file_details_async (logic/service.py).     *)
(*                                                                         *)
(* Texts are finite sequences of characters; " " stands for any            *)
(* whitespace character.  A vector is abstracted to its length, its        *)
(* quality class (unit norm / all zero / non finite) and the text it was   *)
(* computed from.                                                          *)
(***************************************************************************)
EXTENDS Integers, Sequences, FiniteSets, TLC

VARIABLES
    epc,            \* position of the embedding call: "idle", "gather", "returned"
    contents,       \* generate_embeddings: the input list
    tasks,          \* per-item task of the current gather: [st, out]
    all_embeddings, \* _batch_generate_embeddings: results gathered so far
    eret,           \* what the embedding call handed back to its caller
    ipc,            \* position of the ingestion run
    cur,            \* process_file: the file of the run
    raw_content,    \* process_file: the units the parser returned
    next_unit,      \* process_file: index of the unit the loop is at
    processed_content, \* process_file: the processed items so far
    handed,         \* the records given to storage.insert_batch
    store,          \* the vector store: (collection, record) pairs inserted
    store_error,    \* _store_content_batch logged a failed insert
    qcalls,         \* calls of generate_questionnaire_for_content, in order
    qskipped,       \* groups skipped with a logged warning
    qpairs,         \* number of QA pairs generated in the run
    iret,           \* what the run handed back to its caller
    rag_processor,  \* logic.service: the module global rag_processor
    outcomes,       \* per unit of the run: what its analysis and embedding did
    response_content, \* _generate_qa_with_llm: the text the analysis function answered
    qa_pairs,       \* generate_questionnaire_for_content: what the call returned
    collections,    \* vector store server: the names of the collections it has
    indexes,        \* vector store server: per collection, its indexes on "embedding"
    ensure_log,     \* per collection name, the runs of _create_collection so far
    documents,      \* MockMilvusStorage.documents
    entities,       \* vector store server: the rows of the collection of a MilvusStorage
    uuid_count,     \* number of uuid4 values drawn so far
    insert_calls,   \* the calls of insert_batch so far: store, records, ids, raised
    search_result,  \* the last call of search_similar_content and what it returned
    block,          \* the text of a block of a PDF page, as page.get_text gives it
    content_item,   \* the content item the parser made of the block
    rpc,            \* where a call of _generate_single_embedding is
    rtext,          \* the text of the call
    attempt_number, \* the attempt the call is at
    posts,          \* what became of each request sent so far
    slept,          \* the waits between the attempts, in seconds
    rresult,        \* how the call ended
    gpc,            \* where a call of _batch_generate_embeddings is
    gtasks,         \* its per-item tasks: position, attempt, sleep left
    permits,        \* the value of self.semaphore
    since_last,     \* loop.time() - self.last_request_time, up to request_delay
    too_close,      \* a request was sent less than request_delay after another
    image_log,      \* the image units handled so far and what was done for each
    ocr_text,       \* the text handed to _split_ocr_text_into_blocks
    ocr_blocks,     \* the blocks it returned
    file_data       \* the file summary: the flags set and whether they were saved

evars == <<epc, contents, tasks, all_embeddings, eret>>

ivars == <<ipc, cur, raw_content, next_unit, processed_content, handed, store,
           store_error, qcalls, qskipped, qpairs, iret, rag_processor, outcomes>>

gvars == <<response_content, qa_pairs>>

kvars == <<collections, indexes, ensure_log>>

dvars == <<documents, entities, uuid_count, insert_calls, search_result>>
pvars == <<block, content_item>>
rvars == <<rpc, rtext, attempt_number, posts, slept, rresult>>
bvars == <<gpc, gtasks, permits, since_last, too_close>>
mvars == <<image_log>>
ovars == <<ocr_text, ocr_blocks>>
fvars == <<file_data>>

\* the variables outside the embedding client, the ingestion run, the
\* questionnaire call, the collection set-up and the stored documents
NotEmbed == <<ivars, gvars, kvars, dvars, pvars, rvars, bvars, mvars, ovars, fvars>>
NotIngest == <<evars, gvars, kvars, dvars, pvars, rvars, bvars, mvars, ovars, fvars>>
NotQa == <<evars, ivars, kvars, dvars, pvars, rvars, bvars, mvars, ovars, fvars>>
NotCollection == <<evars, ivars, gvars, dvars, pvars, rvars, bvars, mvars, ovars, fvars>>
NotDocuments == <<evars, ivars, gvars, kvars, pvars, rvars, bvars, mvars, ovars, fvars>>
NotParser == <<evars, ivars, gvars, kvars, dvars, rvars, bvars, mvars, ovars, fvars>>
NotRetry == <<evars, ivars, gvars, kvars, dvars, pvars, bvars, mvars, ovars, fvars>>
NotGather == <<evars, ivars, gvars, kvars, dvars, pvars, rvars, mvars, ovars, fvars>>
NotImage == <<evars, ivars, gvars, kvars, dvars, pvars, rvars, bvars, ovars, fvars>>
NotOcr == <<evars, ivars, gvars, kvars, dvars, pvars, rvars, bvars, mvars, fvars>>
NotService == <<evars, gvars, kvars, dvars, pvars, rvars, bvars, mvars, ovars>>

vars == <<evars, ivars, gvars, kvars, dvars, pvars, rvars, bvars, mvars, ovars,
          fvars>>

(***************************************************************************)
(* Bounds of the model.                                                    *)
(***************************************************************************)
MaxTexts == 2       \* longest input list of a batch embedding call
MaxUnits == 2       \* most units the parser returns for a file
MaxPairs == 1       \* most QA pairs one generation call returns
MaxInserts == 2     \* most calls of insert_batch in a behaviour
MaxBatch == 2       \* longest batch of records of distinct kinds
MaxFragments == 3   \* most fragments a block of text is made of
MaxTasks == 3       \* most texts of a batch embedding call
MaxImages == 2      \* most image units handled in a behaviour
MaxSegments == 3    \* most sentences of a text handed to the OCR splitter
MaxRuns == 2        \* most runs of _create_collection for one collection name
MaxResponse == 4    \* longest free-form answer of the analysis function, in tokens
MaxObjects == 4     \* most objects of a well-formed array in an answer
ShortDim == 384     \* a service answer shorter than the configured dimension
LongDim == 1024     \* a service answer longer than the configured dimension

(***************************************************************************)
(* Program constants.                                                      *)
(***************************************************************************)
EXPECTED_DIMENSIONS == 768
BATCH_SIZE == 8
MAX_BATCH_CONCURRENCY == 2
STORAGE_BATCH_SIZE == 100
STOP_AFTER_ATTEMPT == 3
DelayTicks == 1
WAIT_MULTIPLIER == 1
WAIT_MIN == 1
WAIT_MAX == 5
TABLE_PIPES == 3
EQUATION_MAX_LEN == 300
SMALL_IMAGE_BYTES == 1024
OCR_PARAGRAPH_LIMIT == 500
OCR_BLOCK_LIMIT == 400
UnsupportedFormatErrorParams == 2
UnsupportedFormatErrorArgs == 1
RAGProcessorInitParams == 7
CustomRAGProcessorSuperArgs == 8
Md5Bytes == 16
Sha1Bytes == 20
Sha256Bytes == 32

Min(a, b) == IF a < b THEN a ELSE b

(***************************************************************************)
(* Strings.                                                                *)
(***************************************************************************)
IsSpace(c) == c = " "

\* not s.strip()
IsBlank(s) == \A i \in 1..Len(s) : IsSpace(s[i])

RECURSIVE LStrip(_)
LStrip(s) == IF s # <<>> /\ IsSpace(Head(s)) THEN LStrip(Tail(s)) ELSE s

RECURSIVE RStrip(_)
RStrip(s) ==
    IF s # <<>> /\ IsSpace(s[Len(s)]) THEN RStrip(SubSeq(s, 1, Len(s) - 1)) ELSE s

\* str.strip()
Strip(s) == RStrip(LStrip(s))

\* the texts handed to the embedding client
EmbedTexts == { <<>>, <<" ">>, <<"a">>, <<"b", " ">> }

(***************************************************************************)
(* Vectors and the quality check.                                          *)
(***************************************************************************)
Vec(n, quality, text) == [len |-> n, q |-> quality, of |-> text]

\* np.zeros(self.min_dimensions)
Zeros == Vec(EXPECTED_DIMENSIONS, "zero", <<>>)

\* an exception object standing in a result slot (gather, return_exceptions=True)
Exc(text) == Vec(0, "exc", text)

IsExc(v) == v.q = "exc"

\* What one call of _generate_single_embedding can end with for a text, after
\* its retries: an exception, or the array built from the service's answer
\* and divided by its norm when the norm is positive.
ServiceOutcomes(text) ==
    { Exc(text),
      Vec(EXPECTED_DIMENSIONS, "unit", text),
      Vec(EXPECTED_DIMENSIONS, "zero", text),
      Vec(EXPECTED_DIMENSIONS, "nan", text),
      Vec(0, "zero", text),
      Vec(ShortDim, "unit", text),
      Vec(LongDim, "unit", text) }

\* BaseEmbeddingGenerator.validate_embedding
validate_embedding(v) ==
    /\ ~IsExc(v)
    /\ v.len >= EXPECTED_DIMENSIONS
    /\ v.q # "nan"
    /\ v.q # "zero"

\* the quality check of the specification: right dimension, finite, not all zero
PassesQuality(v) ==
    /\ ~IsExc(v)
    /\ v.len = EXPECTED_DIMENSIONS
    /\ v.q = "unit"

\* BaseEmbeddingGenerator.filter_embeddings: the embeddings that validate, in order
filter_embeddings(embeddings) == SelectSeq(embeddings, validate_embedding)

(***************************************************************************)
(* The fallback chain of the embedding client.                             *)
(***************************************************************************)
\* the byte values of the md5, sha1 and sha256 digests, one float each
HashValues == Md5Bytes + Sha1Bytes + Sha256Bytes

\* _create_hash_embedding: the first min_dimensions hash values, extended once
\* by hashes[:cycle_needed]; the digest bytes are taken not to be all zero, so
\* the norm is positive and the vector is divided by it.
create_hash_embedding(text) ==
    IF IsBlank(text)
    THEN Zeros
    ELSE LET first == Min(HashValues, EXPECTED_DIMENSIONS)
             cycle_needed == EXPECTED_DIMENSIONS - first
             extra == IF first < EXPECTED_DIMENSIONS
                      THEN Min(HashValues, cycle_needed) ELSE 0
         IN  Vec(first + extra, "unit", text)

\* _create_fallback_embedding: __init__ sets enable_fallback = False and
\* fallback_model_instance = None, so the sentence-transformers branch is
\* skipped and the hash-based embedding is returned.
create_fallback_embedding(text) == create_hash_embedding(text)

\* _validate_and_normalize_embedding
validate_and_normalize_embedding(v, text) ==
    IF IsExc(v)
    THEN create_fallback_embedding(text)
    ELSE LET resized == Vec(EXPECTED_DIMENSIONS,
                            IF v.len = 0 THEN "zero" ELSE v.q, v.of)
         IN  IF resized.q = "nan" THEN create_fallback_embedding(text)
             ELSE IF resized.q = "zero" THEN create_fallback_embedding(text)
             ELSE IF validate_embedding(resized) THEN resized
             ELSE create_fallback_embedding(text)

NoReturn == [kind |-> "none", list |-> <<>>, vec |-> Zeros]
ReturnList(l) == [kind |-> "list", list |-> l, vec |-> Zeros]
ReturnVec(v) == [kind |-> "vec", list |-> <<>>, vec |-> v]
Raised == [kind |-> "raised", list |-> <<>>, vec |-> Zeros]

\* async_generate_embedding, given what _generate_single_embedding ends with
async_generate_embedding(content, content_type, outcome) ==
    IF content_type # "text" THEN ReturnVec(create_fallback_embedding(content))
    ELSE IF IsBlank(content) THEN ReturnVec(Zeros)
    ELSE IF IsExc(outcome) THEN Raised
    ELSE ReturnVec(validate_and_normalize_embedding(outcome, content))

(***************************************************************************)
(* generate_embeddings: the batch call.                                    *)
(***************************************************************************)
\* lines 241-251: every content is kept, stripped, or replaced by ""
ValidContents(cs) ==
    [i \in 1..Len(cs) |-> IF IsBlank(cs[i]) THEN <<>> ELSE Strip(cs[i])]

\* _batch_generate_embeddings, lines 397-409: an exception or an empty array
\* in a slot is replaced by zeros
BatchSlot(result) ==
    IF IsExc(result) \/ result.len = 0 THEN Zeros ELSE result

\* lines 290-300: pad to the input length, filter, return the valid ones
RECURSIVE PadTo(_, _)
PadTo(embeddings, n) ==
    IF Len(embeddings) < n THEN PadTo(Append(embeddings, Zeros), n) ELSE embeddings

GenerateEmbeddingsReturn(embeddings, cs) ==
    filter_embeddings(SubSeq(PadTo(embeddings, Len(cs)), 1, Len(cs)))

\* lines 269-288: the individual fallback is entered when run_until_complete
\* raised because the caller's event loop is running; each individual
\* run_until_complete raises for the same reason and its slot becomes zeros
FallbackIndividually(valid) == [i \in 1..Len(valid) |-> Zeros]

\* the chunk of texts gathered after `done` results
ChunkOf(valid, done) == SubSeq(valid, done + 1, Min(done + BATCH_SIZE, Len(valid)))

NewTasks(chunk) == [i \in 1..Len(chunk) |-> [st |-> "wait", out |-> Exc(chunk[i])]]

Running == {i \in 1..Len(tasks) : tasks[i].st = "run"}

ContentLists == UNION {[1..n -> EmbedTexts] : n \in 0..MaxTexts}

\* generate_embeddings up to the start of the first gather
GenerateEmbeddings(cs, loopRunning) ==
    /\ epc = "idle"
    /\ contents' = cs
    /\ all_embeddings' = <<>>
    /\ IF cs = <<>>
       THEN /\ epc' = "returned"
            /\ eret' = ReturnList(<<>>)
            /\ tasks' = <<>>
       ELSE IF loopRunning
       THEN /\ epc' = "returned"
            /\ eret' = ReturnList(GenerateEmbeddingsReturn(
                                     FallbackIndividually(ValidContents(cs)), cs))
            /\ tasks' = <<>>
       ELSE /\ epc' = "gather"
            /\ eret' = NoReturn
            /\ tasks' = NewTasks(ChunkOf(ValidContents(cs), 0))
    /\ UNCHANGED NotEmbed

\* _generate_single_embedding: async with self.semaphore
TaskAcquire(i) ==
    /\ epc = "gather"
    /\ tasks[i].st = "wait"
    /\ Cardinality(Running) < MAX_BATCH_CONCURRENCY
    /\ tasks' = [tasks EXCEPT ![i].st = "run"]
    /\ UNCHANGED <<epc, contents, all_embeddings, eret, NotEmbed>>

\* the request of task i ends, in any order among the running tasks
TaskFinish(i) ==
    /\ epc = "gather"
    /\ tasks[i].st = "run"
    /\ \E out \in ServiceOutcomes(tasks[i].out.of) :
           tasks' = [tasks EXCEPT ![i] = [st |-> "done", out |-> out]]
    /\ UNCHANGED <<epc, contents, all_embeddings, eret, NotEmbed>>

\* gather returned for the chunk: slots by input position, then the next chunk
\* or the return of generate_embeddings
GatherDone ==
    /\ epc = "gather"
    /\ \A i \in 1..Len(tasks) : tasks[i].st = "done"
    /\ LET got == all_embeddings \o [i \in 1..Len(tasks) |-> BatchSlot(tasks[i].out)]
           valid == ValidContents(contents)
       IN  /\ all_embeddings' = got
           /\ IF Len(got) < Len(valid)
              THEN /\ tasks' = NewTasks(ChunkOf(valid, Len(got)))
                   /\ UNCHANGED <<epc, eret>>
              ELSE /\ tasks' = tasks
                   /\ epc' = "returned"
                   /\ eret' = ReturnList(GenerateEmbeddingsReturn(got, contents))
    /\ UNCHANGED <<contents, NotEmbed>>

\* one call of async_generate_embedding
AsyncGenerateEmbedding(content, content_type) ==
    /\ epc = "idle"
    /\ \E out \in ServiceOutcomes(content) :
           eret' = async_generate_embedding(content, content_type, out)
    /\ epc' = "returned"
    /\ contents' = <<content>>
    /\ UNCHANGED <<tasks, all_embeddings, NotEmbed>>

EmbedInit ==
    /\ epc = "idle"
    /\ contents = <<>>
    /\ tasks = <<>>
    /\ all_embeddings = <<>>
    /\ eret = NoReturn

EmbedNext ==
    \/ \E cs \in ContentLists, lr \in BOOLEAN : GenerateEmbeddings(cs, lr)
    \/ \E i \in 1..Len(tasks) : TaskAcquire(i)
    \/ \E i \in 1..Len(tasks) : TaskFinish(i)
    \/ GatherDone
    \/ \E c \in EmbedTexts, t \in {"text", "image"} : AsyncGenerateEmbedding(c, t)


(***************************************************************************)
(* Claims about the embedding client.                                      *)
(***************************************************************************)
\* generate_embeddings returned after gathering one result per input
BatchReturned == epc = "returned" /\ eret.kind = "list" /\ all_embeddings # <<>>

\* C1: the batch embedding call returns exactly len(texts) vectors, each of
\* the configured dimension, whatever items failed.
C1_OneVectorPerInput ==
    BatchReturned =>
        /\ Len(eret.list) = Len(contents)
        /\ \A i \in 1..Len(eret.list) : eret.list[i].len = EXPECTED_DIMENSIONS

\* C2: the vector at output position i of a batch call is the vector computed
\* for input text i (or the zero placeholder of a failed item), whatever the
\* completion order and whichever items fail.
C2_OutputFollowsInputOrder ==
    BatchReturned =>
        \A i \in 1..Len(eret.list) :
            \/ eret.list[i] = Zeros
            \/ eret.list[i].of = ValidContents(contents)[i]

\* C6: embedding a (non-blank) text always yields a vector that passes the
\* quality check, whatever the primary service did.
C6_EmbedAlwaysValid ==
    (epc = "returned" /\ eret.kind \in {"vec", "raised"} /\ ~IsBlank(contents[1])) =>
        /\ eret.kind = "vec"
        /\ PassesQuality(eret.vec)

(***************************************************************************)
(* Files, units and the parser's entry point.                              *)
(***************************************************************************)
Users == {"alice", "bob"}

\* the pages of a file
Pages == {1, 2}

Extensions == {".pdf", ".png", ".txt"}

ImageExtensions == {".png", ".jpg", ".jpeg", ".bmp", ".tiff"}

\* a file on disk; upload_files_service names it after its uploader
Files == [owner : Users, ext : Extensions, exists : BOOLEAN]

NoFile == [owner |-> "none", ext |-> "", exists |-> FALSE, throws |-> FALSE]

\* str(file_path)
FileName(file) == <<file.owner, file.ext>>

UnitTexts == { <<"a">>, <<"b">> }

\* a content unit of the parser: its text and its page
Units == [text : UnitTexts, page : Pages]

UnitLists == UNION {[1..n -> Units] : n \in 0..MaxUnits}

\* raise UnsupportedFormatError(f"Unsupported file format: {file_ext}"): the
\* constructor takes (file_path, format); called with one argument it raises
\* TypeError before any UnsupportedFormatError exists
UnsupportedFormatRaise ==
    IF UnsupportedFormatErrorArgs = UnsupportedFormatErrorParams
    THEN "UnsupportedFormatError" ELSE "TypeError"

ParseOk(units) == [kind |-> "ok", err |-> "", units |-> units]
ParseRaised(e) == [kind |-> "raised", err |-> e, units |-> <<>>]

\* a parser that swallows the exception of the parse step and returns what it has
parse_document_lenient(file, parse_throws, units) ==
    IF ~file.exists THEN ParseRaised("FileProcessingError")
    ELSE IF file.ext = ".pdf" \/ file.ext \in ImageExtensions
    THEN ParseOk(units)
    ELSE ParseRaised(UnsupportedFormatRaise)

\* DocumentParser.parse_document; parse_throws: the PDF or image parse step
\* throws, units: what it returns otherwise
parse_document(file, parse_throws, units) ==
    IF ~file.exists THEN ParseRaised("FileProcessingError")
    ELSE IF file.ext = ".pdf"
    THEN IF parse_throws THEN ParseRaised("ParserError") ELSE ParseOk(units)
    ELSE IF file.ext \in ImageExtensions
    THEN IF parse_throws THEN ParseRaised("ParserError") ELSE ParseOk(units)
    ELSE ParseRaised(UnsupportedFormatRaise)

(***************************************************************************)
(* The orchestrator: RAGProcessor.process_file and its steps.              *)
(***************************************************************************)
DigitChars == <<"1", "2", "3", "4", "5", "6", "7", "8", "9">>

\* the string of the default page, whatever the page number
str_of_default_page(n) == <<DigitChars[1]>>

\* str(n) of a page number
str(n) == <<DigitChars[n]>>

\* MilvusStorage.__init__: the collection of a store
MilvusStorageCollectionName(user_name) ==
    IF user_name # "None" THEN <<user_name, "_collection">>
    ELSE <<"rag_embeddings_enhanced">>

\* RAGProcessor.__init__: storage or MilvusStorage(uri=..., token=...), no
\* user name is passed
RAGProcessorStorageCollection == MilvusStorageCollectionName("None")

\* GenericModalProcessor.generate_description_only: enhanced_text is a
\* description ending with the (short) text of the unit
Describe(unit) == <<"D", " ">> \o unit.text

\* RAGProcessor._generate_embedding: generate_embeddings([content_text]), the
\* first vector returned or None (the empty sequence)
generate_embedding_of_item(content_text, out) ==
    IF content_text = <<>>
    THEN <<>>
    ELSE LET embeddings ==
                 GenerateEmbeddingsReturn(<<BatchSlot(out)>>, <<content_text>>)
         IN  IF embeddings # <<>> THEN <<embeddings[1]>> ELSE <<>>

\* an item step that keeps a unit with a zero vector when no embedding was made
process_content_item_zero_filled(file, i, unit, analysis_raises, out) ==
    IF analysis_raises
    THEN <<>>
    ELSE << [unit |-> i,
             source_file |-> FileName(file),
             page_id |-> unit.page,
             text_content |-> Describe(unit),
             embedding |-> Zeros] >>

\* RAGProcessor._process_content_item: the processed item, or None (the empty
\* sequence) when the analysis step raised or no embedding was generated;
\* `unit` is the identity of the dict, i the position of the unit in the file
process_content_item(file, i, unit, analysis_raises, out) ==
    IF analysis_raises
    THEN <<>>
    ELSE LET embedding == generate_embedding_of_item(unit.text, out)
         IN  IF embedding = <<>>
             THEN <<>>
             ELSE << [unit |-> i,
                      source_file |-> FileName(file),
                      page_id |-> unit.page,
                      text_content |-> Describe(unit),
                      embedding |-> embedding[1]] >>

EmbeddingsData_after_first(items) ==
    [i \in 1..(Len(items) - 1) |->
        [unit |-> items[i + 1].unit,
         embedding |-> items[i + 1].embedding,
         text_content |-> items[i + 1].text_content,
         source_file |-> items[i + 1].source_file,
         page_id |-> str(items[i + 1].page_id)]]

\* RAGProcessor._store_content_batch, lines 261-278: the rows for insert_batch
EmbeddingsData(items) ==
    [i \in 1..Len(items) |->
        [unit |-> items[i].unit,
         embedding |-> items[i].embedding,
         text_content |-> items[i].text_content,
         source_file |-> items[i].source_file,
         page_id |-> str(items[i].page_id)]]

\* MilvusStorage.insert_batch on a store that accepts the rows
InsertBatch(collection, rows) ==
    [i \in 1..Len(rows) |-> [collection |-> collection, rec |-> rows[i]]]

(***************************************************************************)
(* The questionnaire generator.                                            *)
(***************************************************************************)
\* the key of generate_and_print_questionnaires: (source_file, str(page_id))
GroupKey(item) == <<item.source_file, str(item.page_id)>>

\* the keys of the dict grouped_content, in insertion order
RECURSIVE GroupKeys(_)
GroupKeys(items) ==
    IF items = <<>>
    THEN <<>>
    ELSE LET k == GroupKey(Head(items))
             IsOther(it) == GroupKey(it) # k
         IN  <<k>> \o GroupKeys(SelectSeq(Tail(items), IsOther))

GroupItems(items, k) ==
    LET InGroup(it) == GroupKey(it) = k IN SelectSeq(items, InGroup)

\* "\n\n".join(texts)
RECURSIVE Join(_)
Join(texts) ==
    IF texts = <<>> THEN <<>>
    ELSE IF Len(texts) = 1 THEN texts[1]
    ELSE texts[1] \o <<" ", " ">> \o Join(Tail(texts))

\* lines 253-257: the texts of the items that have one, joined
Consolidate(page_items) ==
    LET HasText(it) == it.text_content # <<>>
        with_text == SelectSeq(page_items, HasText)
    IN  Join([i \in 1..Len(with_text) |-> with_text[i].text_content])

\* a test of the consolidated text without .strip()
GroupIsEmpty(items, k) == Consolidate(GroupItems(items, k)) = <<>>

\* line 259: not consolidated_content.strip()
GroupIsBlank(items, k) == IsBlank(Consolidate(GroupItems(items, k)))

\* the groups generate_questionnaire_for_content is called for, in order
CalledKeys(items) ==
    LET NotBlank(k) == ~GroupIsBlank(items, k) IN SelectSeq(GroupKeys(items), NotBlank)

\* the groups skipped with a warning, in order
SkippedKeys(items) ==
    LET Blank(k) == GroupIsBlank(items, k) IN SelectSeq(GroupKeys(items), Blank)

\* the consolidated items handed to generate_questionnaire_for_content
GroupCalls(items) ==
    LET keys == CalledKeys(items)
    IN  [i \in 1..Len(keys) |->
            [source_file |-> keys[i][1],
             page_id |-> keys[i][2],
             text_content |-> Consolidate(GroupItems(items, keys[i]))]]

RECURSIVE SumSeq(_)
SumSeq(ns) == IF ns = <<>> THEN 0 ELSE Head(ns) + SumSeq(Tail(ns))

(***************************************************************************)
(* The answer of the analysis function and its parsing.                    *)
(*                                                                         *)
(* An answer is a sequence of tokens: "[", "]", ",", "o" for a JSON object *)
(* with a question and an answer, "n" for a JSON number and "x" for a word *)
(* of prose.                                                               *)
(***************************************************************************)
JsonTokens == {"[", "]", ",", "o", "n", "x"}

JObj == [t |-> "obj", items |-> <<>>]
JNum == [t |-> "num", items |-> <<>>]
JArr(items) == [t |-> "arr", items |-> items]

ParseFail == [ok |-> FALSE, val |-> JNum, rest |-> <<>>]
ParseOkAt(v, rest) == [ok |-> TRUE, val |-> v, rest |-> rest]

RECURSIVE ParseValue(_)
RECURSIVE ParseElements(_, _)

\* the JSON value at the head of s and the tokens after it
ParseValue(s) ==
    IF s = <<>> THEN ParseFail
    ELSE IF Head(s) = "o" THEN ParseOkAt(JObj, Tail(s))
    ELSE IF Head(s) = "n" THEN ParseOkAt(JNum, Tail(s))
    ELSE IF Head(s) = "["
    THEN IF Tail(s) # <<>> /\ Head(Tail(s)) = "]"
         THEN ParseOkAt(JArr(<<>>), Tail(Tail(s)))
         ELSE ParseElements(Tail(s), <<>>)
    ELSE ParseFail

\* the elements of an array after "[" or ",": a value, then "," or "]"
ParseElements(s, acc) ==
    LET v == ParseValue(s)
    IN  IF ~v.ok \/ v.rest = <<>> THEN ParseFail
        ELSE IF Head(v.rest) = "]"
        THEN ParseOkAt(JArr(Append(acc, v.val)), Tail(v.rest))
        ELSE IF Head(v.rest) = ","
        THEN ParseElements(Tail(v.rest), Append(acc, v.val))
        ELSE ParseFail

\* json.loads(s): the value, or JSONDecodeError
json_loads(s) ==
    LET v == ParseValue(s)
    IN  IF v.ok /\ v.rest = <<>>
        THEN [ok |-> TRUE, val |-> v.val]
        ELSE [ok |-> FALSE, val |-> JNum]

\* re.search(r"\[[\s\S]*\]", s): from the first "[" to the last "]" after it
OpenAt(s) == {i \in 1..Len(s) : s[i] = "["}
CloseAt(s) == {j \in 1..Len(s) : s[j] = "]"}
FirstOpen(s) == CHOOSE i \in OpenAt(s) : \A k \in OpenAt(s) : i <= k
LastClose(s) == CHOOSE j \in CloseAt(s) : \A k \in CloseAt(s) : k <= j

json_match(s) ==
    IF OpenAt(s) # {} /\ CloseAt(s) # {} /\ FirstOpen(s) < LastClose(s)
    THEN [found |-> TRUE, group |-> SubSeq(s, FirstOpen(s), LastClose(s))]
    ELSE [found |-> FALSE, group |-> <<>>]

\* a parser that gives up when the direct parse fails
extract_json_direct_only(s) ==
    IF json_loads(s).ok THEN json_loads(s).val ELSE JArr(<<>>)

\* QuestionnaireGenerator._extract_json_from_response
extract_json_from_response(s) ==
    IF json_loads(s).ok
    THEN json_loads(s).val
    ELSE IF json_match(s).found /\ json_loads(json_match(s).group).ok
    THEN json_loads(json_match(s).group).val
    ELSE JArr(<<>>)

QaList(pairs) == [kind |-> "list", pairs |-> pairs]
QaRaised == [kind |-> "raised", pairs |-> <<>>]

\* lines 166-168: for qa_pair in qa_pairs: qa_pair["source_file"] = ...; the
\* item assignment raises TypeError unless every element is an object, and so
\* does the loop over a number or over the keys of an object
AttachMetadata(parsed) ==
    IF parsed.t = "arr" /\ \A i \in 1..Len(parsed.items) : parsed.items[i].t = "obj"
    THEN QaList(parsed.items)
    ELSE QaRaised

generate_qa_with_llm_uncaught(llm_raises, response) ==
    IF llm_raises THEN QaRaised
    ELSE AttachMetadata(extract_json_from_response(response))

\* QuestionnaireGenerator._generate_qa_with_llm: chat_completion raises or
\* answers response; the except clause of lines 177-183 returns []
generate_qa_with_llm(llm_raises, response) ==
    LET body == IF llm_raises THEN QaRaised
                ELSE AttachMetadata(extract_json_from_response(response))
    IN  IF body.kind = "raised" THEN QaList(<<>>) ELSE body

\* QuestionnaireGenerator.generate_questionnaire_for_content
generate_questionnaire_for_content(text_content, llm_raises, response) ==
    IF text_content = <<>>
    THEN QaList(<<>>)
    ELSE generate_qa_with_llm(llm_raises, response)

RECURSIVE ArrayTail(_)
ArrayTail(n) == IF n = 0 THEN <<"]">> ELSE <<",", "o">> \o ArrayTail(n - 1)

\* a well-formed array of n objects
ArrayOf(n) == IF n = 0 THEN <<"[", "]">> ELSE <<"[", "o">> \o ArrayTail(n - 1)

\* the answers of the analysis function: every short token sequence, and the
\* well-formed arrays alone or inside prose
Responses ==
    UNION {[1..n -> JsonTokens] : n \in 0..MaxResponse}
    \cup {ArrayOf(n) : n \in 0..MaxObjects}
    \cup {<<"x">> \o ArrayOf(n) \o <<"x">> : n \in 0..MaxObjects}

NoResponse == <<"x">>

\* one call of generate_questionnaire_for_content
GenerateQuestionnaireForContent(text_content, llm_raises, response) ==
    /\ qa_pairs.kind = "none"
    /\ response_content' = [text |-> text_content, raised |-> llm_raises,
                            response |-> IF llm_raises \/ text_content = <<>>
                                         THEN NoResponse ELSE response]
    /\ qa_pairs' = generate_questionnaire_for_content(text_content, llm_raises, response)
    /\ UNCHANGED NotQa

QaInit ==
    /\ response_content = [text |-> <<>>, raised |-> FALSE, response |-> NoResponse]
    /\ qa_pairs = [kind |-> "none", pairs |-> <<>>]

\* the texts a content item can carry: none, blank, some
QTexts == { <<>>, <<" ">>, <<"a">> }

QaNext ==
    \E text_content \in QTexts, llm_raises \in BOOLEAN, response \in Responses :
        GenerateQuestionnaireForContent(text_content, llm_raises, response)

(***************************************************************************)
(* Actions of an ingestion run.                                            *)
(***************************************************************************)
NoResult == [kind |-> "none", err |-> "", list |-> <<>>, by |-> ""]
Returned(by, list) == [kind |-> "list", err |-> "", list |-> list, by |-> by]
RaisedError(by, e) == [kind |-> "raised", err |-> e, list |-> <<>>, by |-> by]

WithThrows(file, t) ==
    [owner |-> file.owner, ext |-> file.ext, exists |-> file.exists, throws |-> t]

\* RAGProcessor.process_file up to the loop over the units
ProcessFile(file) ==
    /\ ipc = "idle"
    /\ \E parse_throws \in BOOLEAN, units \in UnitLists :
         LET parsed == parse_document(file, parse_throws, units)
         IN  /\ cur' = WithThrows(file, parse_throws)
             /\ IF ~file.exists
                THEN /\ ipc' = "raised"
                     /\ iret' = RaisedError("process_file", "FileProcessingError")
                     /\ UNCHANGED raw_content
                ELSE IF parsed.kind = "raised"
                THEN /\ ipc' = "raised"
                     /\ iret' = RaisedError("process_file", parsed.err)
                     /\ UNCHANGED raw_content
                ELSE IF parsed.units = <<>>
                THEN /\ ipc' = "returned"
                     /\ iret' = Returned("process_file", <<>>)
                     /\ UNCHANGED raw_content
                ELSE /\ ipc' = "units"
                     /\ raw_content' = parsed.units
                     /\ UNCHANGED iret
    /\ UNCHANGED <<next_unit, processed_content, handed, store, store_error,
                   qcalls, qskipped, qpairs, rag_processor, outcomes, NotIngest>>

\* a direct call of DocumentParser.parse_document
ParseDocument(file) ==
    /\ ipc = "idle"
    /\ \E parse_throws \in BOOLEAN, units \in UnitLists :
         LET parsed == parse_document(file, parse_throws, units)
         IN  /\ cur' = WithThrows(file, parse_throws)
             /\ IF parsed.kind = "raised"
                THEN /\ ipc' = "raised"
                     /\ iret' = RaisedError("parse_document", parsed.err)
                     /\ UNCHANGED raw_content
                ELSE /\ ipc' = "parsed"
                     /\ raw_content' = parsed.units
                     /\ iret' = Returned("parse_document", <<>>)
    /\ UNCHANGED <<next_unit, processed_content, handed, store, store_error,
                   qcalls, qskipped, qpairs, rag_processor, outcomes, NotIngest>>

\* what happens to a unit: its analysis raises, or the embedding service is
\* asked for the stripped text and raises or answers a vector of the
\* configured dimension
UnitOutcomes(text) ==
    { [analysis_raises |-> TRUE, out |-> Exc(text)] } \cup
    { [analysis_raises |-> FALSE, out |-> o] :
        o \in { Exc(text), Vec(EXPECTED_DIMENSIONS, "unit", text) } }

\* one round of the loop of process_file, lines 151-157; after the last unit
\* the run goes on to the storage step, or returns when nothing was processed
ProcessContentItem ==
    /\ ipc = "units"
    /\ LET unit == raw_content[next_unit]
       IN  \E o \in UnitOutcomes(Strip(unit.text)) :
             LET item == process_content_item(cur, next_unit, unit,
                                              o.analysis_raises, o.out)
                 processed == processed_content \o item
             IN  /\ processed_content' = processed
                 /\ outcomes' = Append(outcomes, o)
                 /\ next_unit' = next_unit + 1
                 /\ IF next_unit < Len(raw_content)
                    THEN UNCHANGED <<ipc, iret>>
                    ELSE IF processed # <<>>
                    THEN /\ ipc' = "store"
                         /\ UNCHANGED iret
                    ELSE /\ ipc' = "returned"
                         /\ iret' = Returned("process_file", <<>>)
    /\ UNCHANGED <<cur, raw_content, handed, store, store_error, qcalls,
                   qskipped, qpairs, rag_processor, NotIngest>>

\* RAGProcessor._store_content_batch: the insert is accepted, or the store
\* rejects it, insert_batch raises FileProcessingError and the except clause
\* of _store_content_batch logs it
StoreContentBatch ==
    /\ ipc = "store"
    /\ handed' = EmbeddingsData(processed_content)
    /\ \E accepted \in BOOLEAN :
         IF accepted
         THEN /\ store' = store \o InsertBatch(RAGProcessorStorageCollection, handed')
              /\ UNCHANGED store_error
         ELSE /\ store_error' = TRUE
              /\ UNCHANGED store
    /\ ipc' = "quest"
    /\ UNCHANGED <<cur, raw_content, next_unit, processed_content, qcalls,
                   qskipped, qpairs, iret, rag_processor, outcomes, NotIngest>>

\* whether a call of _generate_qa_with_llm went wrong inside: chat_completion
\* raised, the answer holds no JSON, or the answer is not an array of objects
CallFailed(llm_raises, response) ==
    \/ llm_raises
    \/ ~json_loads(response).ok /\ ~json_match(response).found
    \/ AttachMetadata(extract_json_from_response(response)).kind = "raised"

\* what can become of one call of generate_questionnaire_for_content: the
\* analysis call raises, its answer is prose, its answer is an array of
\* numbers, or its answer is an array of question-answer objects
CallOutcomes ==
    { [llm_raises |-> TRUE, response |-> NoResponse],
      [llm_raises |-> FALSE, response |-> <<"x">>],
      [llm_raises |-> FALSE, response |-> <<"[", "n", "]">>] }
    \cup { [llm_raises |-> FALSE, response |-> ArrayOf(n)] : n \in 0..MaxPairs }

\* QuestionnaireGenerator.generate_and_print_questionnaires on items, called
\* by `by' outside any try block: one call of
\* generate_questionnaire_for_content per group with text, each returning some
\* pairs (none when the analysis call or the parsing of its answer fails); an
\* exception leaving a call would leave the caller too, otherwise the caller
\* returns ret
RunQuestionnaires(items, by, ret) ==
    \E outs \in [1..Len(CalledKeys(items)) -> CallOutcomes] :
        LET calls == GroupCalls(items)
            got == [i \in 1..Len(calls) |->
                       generate_questionnaire_for_content(
                           calls[i].text_content, outs[i].llm_raises, outs[i].response)]
            escapes == \E i \in 1..Len(calls) : got[i].kind = "raised"
        IN  /\ qcalls' = qcalls \o
                   [i \in 1..Len(calls) |->
                       [source_file |-> calls[i].source_file,
                        page_id |-> calls[i].page_id,
                        text_content |-> calls[i].text_content,
                        failed |-> CallFailed(outs[i].llm_raises, outs[i].response)]]
            /\ qskipped' = qskipped \o SkippedKeys(items)
            /\ qpairs' = qpairs + SumSeq([i \in 1..Len(calls) |-> Len(got[i].pairs)])
            /\ ipc' = IF escapes THEN "raised" ELSE "returned"
            /\ iret' = IF escapes THEN RaisedError(by, "Exception")
                       ELSE Returned(by, ret)

\* process_file, lines 163-167
ProcessFileQuestionnaires ==
    /\ ipc = "quest"
    /\ RunQuestionnaires(processed_content, "process_file", processed_content)
    /\ UNCHANGED <<cur, raw_content, next_unit, processed_content, handed, store,
                   store_error, rag_processor, outcomes, NotIngest>>

DirectSources == { <<"alice", ".pdf">>, <<"bob", ".pdf">> }

\* content items as a caller of the generator or a stub processor builds them
QItems == [source_file : DirectSources, page_id : Pages, text_content : QTexts]

QItemLists == UNION {[1..n -> QItems] : n \in 0..MaxUnits}

\* a direct call of generate_and_print_questionnaires(content_items)
GenerateAndPrintQuestionnaires(items) ==
    /\ ipc = "idle"
    /\ processed_content' = items
    /\ RunQuestionnaires(items, "generate_and_print_questionnaires", <<>>)
    /\ UNCHANGED <<cur, raw_content, next_unit, handed, store, store_error,
                   rag_processor, outcomes, NotIngest>>

(***************************************************************************)
(* The upload service.                                                     *)
(***************************************************************************)
\* CustomRAGProcessor.__init__ hands eight positional arguments to
\* RAGProcessor.__init__, which takes seven: the construction raises TypeError
CustomRAGProcessorInit(user_name) ==
    IF CustomRAGProcessorSuperArgs > RAGProcessorInitParams
    THEN "TypeError"
    ELSE "custom"

\* tests/test_rag_integration.py: @patch('logic.service.rag_processor') puts a
\* stub processor in the module global
PatchRagProcessor ==
    /\ ipc = "idle"
    /\ rag_processor = "None"
    /\ rag_processor' = "stub"
    /\ UNCHANGED <<ipc, cur, raw_content, next_unit, processed_content, handed,
                   store, store_error, qcalls, qskipped, qpairs, iret, outcomes,
                   NotIngest>>

\* the calls of lines 405-409: generate_questionnaire_for_content(content_item)
\* for each item of content_list
ServiceCalls(content_list) ==
    [i \in 1..Len(content_list) |->
        [source_file |-> content_list[i].source_file,
         page_id |-> str(content_list[i].page_id),
         text_content |-> content_list[i].text_content]]

\* the summary as upload_files makes it
NotProcessed == [is_processed |-> FALSE, total_generated_qna |-> 0, updated |-> FALSE]

FileDataInit == file_data = NotProcessed

\* insert_file_details_async; created: create_file_details succeeded,
\* content_list: what process_file of a stub processor returns, updated:
\* update_file_details saved the summary.  The response is built with status
\* "success" whatever process_file returned, so lines 434-440 follow every
\* return of process_file.  Every exception is caught and logged by the except
\* clause of lines 462-463.
InsertFileDetailsAsync(user_name, created) ==
    /\ ipc = "idle"
    /\ ipc' = "returned"
    /\ IF ~created
       THEN /\ iret' = RaisedError("insert_file_details_async", "not inserted")
            /\ UNCHANGED <<processed_content, qcalls, qpairs, rag_processor, file_data>>
       ELSE IF rag_processor = "None"
       THEN /\ iret' = RaisedError("insert_file_details_async",
                                   CustomRAGProcessorInit(user_name))
            /\ UNCHANGED <<processed_content, qcalls, qpairs, rag_processor, file_data>>
       ELSE /\ \E content_list \in QItemLists :
                 /\ processed_content' = content_list
                 /\ qcalls' = qcalls \o ServiceCalls(content_list)
                 /\ \E counts \in [1..Len(content_list) -> 0..MaxPairs],
                       updated \in BOOLEAN :
                        /\ qpairs' = qpairs + SumSeq(counts)
                        /\ file_data' = [is_processed |-> TRUE,
                                         total_generated_qna |-> SumSeq(counts),
                                         updated |-> updated]
                 /\ iret' = Returned("insert_file_details_async", content_list)
            /\ UNCHANGED rag_processor
    /\ UNCHANGED <<cur, raw_content, next_unit, handed, store, store_error,
                   qskipped, outcomes, NotService>>

(***************************************************************************)
(* The vector store: collection and index set-up.                          *)
(***************************************************************************)
\* the collection names of the stores of the users and of the default store
CollectionNames == {MilvusStorageCollectionName(u) : u \in Users \cup {"None"}}

\* the error messages of create_index that _create_indexes takes for "the
\* index is already there", lines 270-274
AlreadyExistsMessages ==
    { "at most one distinct index is allowed per field",
      "index already exists",
      "index built" }

\* what the server answers to create_index for a field that has an index: the
\* request is a no-op, or it is refused with one of these messages
CreateIndexReplies == {"ok"} \cup AlreadyExistsMessages

SetupResult(requests, raised, created) ==
    [requests |-> requests, raised |-> raised, created |-> created]

\* a request to the server and its answer
Req(op, reply) == [op |-> op, reply |-> reply]

\* an index set-up that takes every refusal of create_index for a failure
create_indexes_strict(has_index, described, reply) ==
    IF has_index /\ described
    THEN SetupResult(<<Req("describe_index", "index")>>, FALSE, FALSE)
    ELSE IF ~has_index
    THEN SetupResult(<<Req("describe_index", "none"), Req("create_index", "ok")>>,
                     FALSE, TRUE)
    ELSE SetupResult(<<Req("describe_index", "none"), Req("create_index", reply)>>,
                     reply # "ok", FALSE)

\* MilvusStorage._create_indexes; has_index: the field has an index,
\* described: describe_index(collection, "embedding") reports it (when it
\* raises or reports nothing the except clause of lines 249-251 goes on),
\* reply: the answer to create_index for a field that has an index
create_indexes(has_index, described, reply) ==
    IF has_index /\ described
    THEN SetupResult(<<Req("describe_index", "index")>>, FALSE, FALSE)
    ELSE IF ~has_index
    THEN SetupResult(<<Req("describe_index", "none"), Req("create_index", "ok")>>,
                     FALSE, TRUE)
    ELSE SetupResult(<<Req("describe_index", "none"), Req("create_index", reply)>>,
                     reply \notin {"ok"} \cup AlreadyExistsMessages, FALSE)

\* MilvusStorage._create_collection on a server that has the collection or not
create_collection(exists, has_index, described, reply) ==
    LET ix == create_indexes(has_index, described, reply)
        first == IF exists
                 THEN <<Req("has_collection", "true")>>
                 ELSE <<Req("has_collection", "false"), Req("create_collection", "ok")>>
        last == IF exists
                THEN <<Req("load_collection", "ok"), Req("query", "ok")>>
                ELSE <<Req("load_collection", "ok")>>
    IN  IF ix.raised
        THEN SetupResult(first \o ix.requests, TRUE, ix.created)
        ELSE SetupResult(first \o ix.requests \o last, FALSE, ix.created)

\* one run of _create_collection for the collection `name`
CreateCollection(name) ==
    /\ Len(ensure_log[name]) < MaxRuns
    /\ \E described \in BOOLEAN, reply \in CreateIndexReplies :
         LET run == create_collection(name \in collections, indexes[name] > 0,
                                      described, reply)
         IN  /\ ensure_log' = [ensure_log EXCEPT ![name] = Append(@, run)]
             /\ collections' = collections \cup {name}
             /\ indexes' = [indexes EXCEPT ![name] = IF run.created THEN @ + 1 ELSE @]
    /\ UNCHANGED NotCollection

CollectionInit ==
    /\ collections = {}
    /\ indexes = [name \in CollectionNames |-> 0]
    /\ ensure_log = [name \in CollectionNames |-> <<>>]

CollectionNext == \E name \in CollectionNames : CreateCollection(name)

(***************************************************************************)
(* The vector store: insert_batch.                                         *)
(***************************************************************************)
ContentTypes == {"text", "table"}

SourceFiles == {"f1", "f2"}

\* a record as _store_content_batch and the tests build it
Records == [content_type : ContentTypes, source_file : SourceFiles]

\* batches of n equal records, as in tests/test_milvus_batch_insertion.py
UniformBatch(n) == [i \in 1..n |-> [content_type |-> "text", source_file |-> "f1"]]

\* batch sizes below, equal to and above the chunk size
InsertSizes ==
    {0, 6, STORAGE_BATCH_SIZE - 1, STORAGE_BATCH_SIZE, STORAGE_BATCH_SIZE + 1,
     2 * STORAGE_BATCH_SIZE + 50}

UniformBatches == {UniformBatch(n) : n \in InsertSizes}

SmallBatches == UNION {[1..n -> Records] : n \in 0..MaxBatch}

\* ids that restart with every call
RestartingUuids(drawn, n) == [i \in 1..n |-> i]

\* str(uuid.uuid4()) n times after `drawn` values were drawn: fresh values
Uuids(drawn, n) == [i \in 1..n |-> drawn + i]

\* number of chunks of range(0, n, BATCH_SIZE)
NumChunks(n) == (n + STORAGE_BATCH_SIZE - 1) \div STORAGE_BATCH_SIZE

InsertCall(st, records, ids, raised) ==
    [store |-> st, records |-> records, ids |-> ids, raised |-> raised]

\* MockMilvusStorage.insert_batch
MockInsertBatch(records) ==
    LET ids == Uuids(uuid_count, Len(records))
    IN  /\ documents' = documents \o
               [i \in 1..Len(records) |->
                   [id |-> ids[i],
                    content_type |-> records[i].content_type,
                    source_file |-> records[i].source_file]]
        /\ uuid_count' = uuid_count + Len(records)
        /\ insert_calls' = Append(insert_calls, InsertCall("mock", records, ids, FALSE))
        /\ UNCHANGED <<entities, search_result, NotDocuments>>

\* MilvusStorage.insert_batch; failing: the chunk whose client.insert raises
\* (0: none).  The entity has no content_type (line 363), the server stores
\* the default "" of the field.
MilvusInsertBatch(records, failing) ==
    LET n == Len(records)
        \* records whose id was drawn, and records that reached the server
        drawn == IF failing = 0 THEN n ELSE Min(failing * STORAGE_BATCH_SIZE, n)
        sent == IF failing = 0 THEN n ELSE (failing - 1) * STORAGE_BATCH_SIZE
        ids == Uuids(uuid_count, drawn)
    IN  /\ failing \in 0..NumChunks(n)
        /\ entities' = entities \o
               [i \in 1..sent |->
                   [id |-> ids[i],
                    content_type |-> "",
                    source_file |-> records[i].source_file]]
        /\ uuid_count' = uuid_count + drawn
        /\ insert_calls' = Append(insert_calls,
               IF failing = 0
               THEN InsertCall("milvus", records, ids, FALSE)
               ELSE InsertCall("milvus", records, <<>>, TRUE))
        /\ UNCHANGED <<documents, search_result, NotDocuments>>

\* MockMilvusStorage.get_collection_stats()["total_documents"]
MockTotalDocuments == Len(documents)

NoSearch ==
    [store |-> "none", content_types |-> <<>>, source_filter |-> "None",
     kind |-> "none", docs |-> {}]

DocumentsInit ==
    /\ documents = <<>>
    /\ entities = <<>>
    /\ uuid_count = 0
    /\ insert_calls = <<>>
    /\ search_result = NoSearch

\* a sequence of insert_batch calls on a mock store and on a MilvusStorage
InsertNext ==
    /\ Len(insert_calls) < MaxInserts
    /\ \/ \E records \in UniformBatches : MockInsertBatch(records)
       \/ \E records \in UniformBatches, failing \in 0..3 :
              MilvusInsertBatch(records, failing)

(***************************************************************************)
(* The vector store: search_similar_content.  A filter expression is the   *)
(* sequence of its tokens; the comparison field == 'value' is one token.   *)
(***************************************************************************)
TypeLists == {<<>>, <<"text">>, <<"table">>, <<"text", "table">>}

SourceFilters == {"None"} \cup SourceFiles

TopKs == {1, 5}

Word(w) == [t |-> w, field |-> "", value |-> ""]

EqTok(field, value) == [t |-> "eq", field |-> field, value |-> value]

RECURSIVE JoinOr(_)
\* " OR ".join(parts)
JoinOr(parts) ==
    IF parts = <<>> THEN <<>>
    ELSE IF Len(parts) = 1 THEN Head(parts)
    ELSE Head(parts) \o <<Word("OR")>> \o JoinOr(Tail(parts))

NoExpr == <<Word("None")>>

\* the expression search_similar_content builds (lines 399-408): with both
\* filters the f-string "({expr}) if {expr} else {source_expr}" is the value
build_expr(content_types, source_filter) ==
    LET content_expr ==
            JoinOr([i \in 1..Len(content_types) |->
                        <<EqTok("content_type", content_types[i])>>])
        source_expr == <<EqTok("source_file", source_filter)>>
    IN  IF content_types # <<>> /\ source_filter # "None"
        THEN <<Word("(")>> \o content_expr \o <<Word(")"), Word("if")>>
             \o content_expr \o <<Word("else")>> \o source_expr
        ELSE IF content_types # <<>> THEN content_expr
        ELSE IF source_filter # "None" THEN source_expr
        ELSE NoExpr

FilterFail == [ok |-> FALSE, val |-> FALSE, rest |-> <<>>]

FilterOk(val, rest) == [ok |-> TRUE, val |-> val, rest |-> rest]

RECURSIVE EvalAnd(_, _), EvalOr(_, _), EvalTerm(_, _), EvalAndTail(_, _, _), EvalOrTail(_, _, _)
\* the server's boolean filter expressions over a row:
\*   or ::= and ("OR" and)*    and ::= term ("and" term)*
\*   term ::= field == 'value' | "(" or ")"
EvalTerm(toks, row) ==
    IF toks = <<>> THEN FilterFail
    ELSE IF Head(toks).t = "eq"
    THEN FilterOk(row[Head(toks).field] = Head(toks).value, Tail(toks))
    ELSE IF Head(toks).t = "("
    THEN LET inner == EvalOr(Tail(toks), row)
         IN  IF inner.ok /\ inner.rest # <<>> /\ Head(inner.rest).t = ")"
             THEN FilterOk(inner.val, Tail(inner.rest))
             ELSE FilterFail
    ELSE FilterFail

EvalAndTail(val, toks, row) ==
    IF toks # <<>> /\ Head(toks).t = "and"
    THEN LET right == EvalTerm(Tail(toks), row)
         IN  IF right.ok THEN EvalAndTail(val /\ right.val, right.rest, row)
             ELSE FilterFail
    ELSE FilterOk(val, toks)

EvalAnd(toks, row) ==
    LET left == EvalTerm(toks, row)
    IN  IF left.ok THEN EvalAndTail(left.val, left.rest, row) ELSE FilterFail

EvalOrTail(val, toks, row) ==
    IF toks # <<>> /\ Head(toks).t = "OR"
    THEN LET right == EvalAnd(Tail(toks), row)
         IN  IF right.ok THEN EvalOrTail(val \/ right.val, right.rest, row)
             ELSE FilterFail
    ELSE FilterOk(val, toks)

EvalOr(toks, row) ==
    LET left == EvalAnd(toks, row)
    IN  IF left.ok THEN EvalOrTail(left.val, left.rest, row) ELSE FilterFail

\* a filter the server accepts: None, or an expression with nothing left over
FilterAccepted(expr, row) ==
    \/ expr = NoExpr
    \/ EvalOr(expr, row).ok /\ EvalOr(expr, row).rest = <<>>

FilterMatches(expr, row) == expr = NoExpr \/ EvalOr(expr, row).val

AnyRow == [id |-> 0, content_type |-> "", source_file |-> ""]

Range(seq) == {seq[i] : i \in 1..Len(seq)}

\* the top_k most similar of the matching rows; the similarity of a row to the
\* query is not modelled, so any top_k of them
TopOf(rows, top_k) ==
    {picked \in SUBSET rows : Cardinality(picked) = Min(top_k, Cardinality(rows))}

SearchReturn(st, content_types, source_filter, kind, docs) ==
    [store |-> st, content_types |-> content_types,
     source_filter |-> source_filter, kind |-> kind, docs |-> docs]

\* MockMilvusStorage.search_similar_content
MockSearch(top_k, content_types, source_filter) ==
    LET by_type == {doc \in Range(documents) :
                        content_types # <<>> => doc.content_type \in Range(content_types)}
        filtered_docs == {doc \in by_type :
                        source_filter # "None" => doc.source_file = source_filter}
    IN  /\ \E results \in TopOf(filtered_docs, top_k) :
               search_result' =
                   SearchReturn("mock", content_types, source_filter, "list", results)
        /\ UNCHANGED <<documents, entities, uuid_count, insert_calls, NotDocuments>>

\* MilvusStorage.search_similar_content
MilvusSearch(top_k, content_types, source_filter) ==
    LET expr == build_expr(content_types, source_filter)
        matching == {row \in Range(entities) : FilterMatches(expr, row)}
    IN  /\ IF FilterAccepted(expr, AnyRow)
           THEN \E results \in TopOf(matching, top_k) :
                    search_result' =
                        SearchReturn("milvus", content_types, source_filter, "list", results)
           ELSE search_result' =
                    SearchReturn("milvus", content_types, source_filter, "raised", {})
        /\ UNCHANGED <<documents, entities, uuid_count, insert_calls, NotDocuments>>

\* one insert_batch of records of any kinds, then one search
SearchNext ==
    /\ search_result.kind = "none"
    /\ \/ /\ insert_calls = <<>>
          /\ \/ \E records \in SmallBatches : MockInsertBatch(records)
             \/ \E records \in SmallBatches, failing \in 0..1 :
                    MilvusInsertBatch(records, failing)
       \/ \E top_k \in TopKs, content_types \in TypeLists, source_filter \in SourceFilters :
              \/ MockSearch(top_k, content_types, source_filter)
              \/ MilvusSearch(top_k, content_types, source_filter)

(***************************************************************************)
(* The parser: the classification of the text blocks of a PDF page.  A     *)
(* character outside ASCII is written by its name.                         *)
(***************************************************************************)
Lowercase ==
    <<"a", "b", "c", "d", "e", "f", "g", "h", "i", "j", "k", "l", "m",
      "n", "o", "p", "q", "r", "s", "t", "u", "v", "w", "x", "y", "z">>

Uppercase ==
    <<"A", "B", "C", "D", "E", "F", "G", "H", "I", "J", "K", "L", "M",
      "N", "O", "P", "Q", "R", "S", "T", "U", "V", "W", "X", "Y", "Z">>

\* [a-zA-Z] and [0-9] of the regular expression
IsLetter(c) == \E i \in 1..26 : c = Lowercase[i] \/ c = Uppercase[i]

IsDigit(c) == c \in {"0", "1", "2", "3", "4", "5", "6", "7", "8", "9"}

\* str.lower()
Lower(text) ==
    [i \in 1..Len(text) |->
        IF \E k \in 1..26 : text[i] = Uppercase[k]
        THEN Lowercase[CHOOSE k \in 1..26 : text[i] = Uppercase[k]]
        ELSE text[i]]

\* text.count(c)
CountOf(text, c) == Cardinality({i \in 1..Len(text) : text[i] = c})

\* keyword in text
HasSubstring(text, keyword) ==
    \E i \in 1..(Len(text) - Len(keyword) + 1) :
        \A k \in 1..Len(keyword) : text[i + k - 1] = keyword[k]

TableKeywords ==
    { <<"t", "a", "b", "l", "e", ":">>, <<"t", "a", "b", "l", "e", "-">>,
      <<"t", "a", "b", ":">>, <<"t", "a", "b", "-">> }

equation_patterns ==
    {"=", "+", "-", "*", "/", "INTEGRAL", "SUM", "PRODUCT", "SQRT", "^",
     "LESS-OR-EQUAL", "GREATER-OR-EQUAL", "NOT-EQUAL", "ALMOST-EQUAL"}

EquationKeywords ==
    { <<"e", "q", "u", "a", "t", "i", "o", "n", ":">>, <<"e", "q", ":">>,
      <<"f", "o", "r", "m", "u", "l", "a", ":">>,
      <<"t", "h", "e", "o", "r", "e", "m", ":">> }

\* a test for columns that asks for one pipe character more
has_table_columns_of_five(text) == CountOf(text, "|") > TABLE_PIPES + 1

\* '|' in text and text.count('|') > 3
has_table_columns(text) == CountOf(text, "|") > TABLE_PIPES

\* a test for the structure of an equation without its third alternative
equation_structure_of_digits(text) ==
    \E i \in 1..Len(text) - 1 :
        \/ IsLetter(text[i]) /\ IsDigit(text[i + 1])
        \/ IsDigit(text[i]) /\ IsLetter(text[i + 1])

\* re.search(r'[a-zA-Z][0-9]|[0-9][a-zA-Z]|[a-zA-Z]\s*=', text)
equation_structure(text) ==
    \E i \in 1..Len(text) - 1 :
        \/ IsLetter(text[i]) /\ IsDigit(text[i + 1])
        \/ IsDigit(text[i]) /\ IsLetter(text[i + 1])
        \/ /\ IsLetter(text[i])
           /\ \E j \in (i + 1)..Len(text) :
                  /\ text[j] = "="
                  /\ \A k \in (i + 1)..(j - 1) : IsSpace(text[k])

\* DocumentParser._classify_content_type; "None" when the function ends
\* without a return statement
classify_content_type(text) ==
    LET text_lower == Strip(Lower(text))
    IN  IF has_table_columns(text)
        THEN "table"
        ELSE IF \E keyword \in TableKeywords : HasSubstring(text_lower, keyword)
        THEN "table"
        ELSE IF /\ \E i \in 1..Len(text) : text[i] \in equation_patterns
                /\ Len(text) < EQUATION_MAX_LEN
                /\ equation_structure(text)
        THEN "equation"
        ELSE IF \E keyword \in EquationKeywords : HasSubstring(text_lower, keyword)
        THEN "equation"
        ELSE "None"

\* a run of characters without marker, three short of the length limit
Filler == [i \in 1..(EQUATION_MAX_LEN - 3) |-> "."]

\* the pieces the blocks of text are made of
Fragments ==
    { <<"|">>, <<"|", "|">>, <<"x">>, <<"1">>, <<"=">>, <<"x", "=">>, <<" ">>,
      <<"+">>, <<"t", "a", "b", ":">>, <<"T", "a", "b", "l", "e", "-">>,
      <<"e", "q", ":">>, Filler }

RECURSIVE Concat(_)
Concat(pieces) ==
    IF pieces = <<>> THEN <<>> ELSE Head(pieces) \o Concat(Tail(pieces))

Blocks == {Concat(pieces) : pieces \in UNION {[1..n -> Fragments] : n \in 0..MaxFragments}}

NoItem == [kind |-> "none", type |-> "", text |-> <<>>]

\* _parse_pdf_pymupdf, lines 197-215: a block with text gives a content item
\* with the type of its stripped text, a blank block gives none
ParseTextBlock ==
    /\ content_item.kind = "none"
    /\ content_item' =
           IF Len(Strip(block)) > 0
           THEN [kind |-> "item",
                 type |-> classify_content_type(Strip(block)),
                 text |-> Strip(block)]
           ELSE [kind |-> "skipped", type |-> "", text |-> <<>>]
    /\ UNCHANGED <<block, NotParser>>

\* no block is being parsed
ParserIdle ==
    /\ block = <<>>
    /\ content_item = NoItem

\* a block of a page is about to be parsed
ParserInit ==
    /\ block \in Blocks
    /\ content_item = NoItem

ParserNext == ParseTextBlock

(***************************************************************************)
(* The embedding client: one call of _generate_single_embedding under its  *)
(* retry decorator.                                                        *)
(***************************************************************************)
\* what can become of one request to the embedding service
RequestOutcomes ==
    {"ok", "network_error", "timeout", "decode_error", "http_503",
     "http_404", "http_400", "http_500", "no_embedding"}

\* the exception the body of _generate_single_embedding raises
ExceptionOf(outcome) ==
    CASE outcome = "network_error" -> "aiohttp.ClientError"
      [] outcome = "timeout" -> "asyncio.TimeoutError"
      [] outcome = "decode_error" -> "json.JSONDecodeError"
      [] outcome = "http_503" -> "aiohttp.ClientError"
      [] outcome = "http_404" -> "ValueError"
      [] outcome = "http_400" -> "aiohttp.ClientError"
      [] outcome = "http_500" -> "aiohttp.ClientError"
      [] outcome = "no_embedding" -> "KeyError"

\* a retry condition that knows only the client error
retry_if_client_error(exception) == exception = "aiohttp.ClientError"

\* retry=retry_if_exception_type((aiohttp.ClientError, asyncio.TimeoutError,
\* json.JSONDecodeError))
retry_if_exception_type(exception) ==
    exception \in {"aiohttp.ClientError", "asyncio.TimeoutError", "json.JSONDecodeError"}

\* a stop condition that allows one attempt more
stop_after_attempt_four(n) == n >= STOP_AFTER_ATTEMPT + 1

\* stop=stop_after_attempt(3)
stop_after_attempt(n) == n >= STOP_AFTER_ATTEMPT

RECURSIVE Pow2(_)
Pow2(n) == IF n = 0 THEN 1 ELSE 2 * Pow2(n - 1)

\* wait=wait_exponential(multiplier=1, min=1, max=5); the exponent is the
\* attempt number or one less, with the version of the retry library
wait_exponential(exponent) ==
    LET result == WAIT_MULTIPLIER * Pow2(exponent)
    IN  IF result > WAIT_MAX THEN WAIT_MAX
        ELSE IF result < WAIT_MIN THEN WAIT_MIN
        ELSE result

NotCalled == [kind |-> "none", exception |-> ""]

\* a task of _batch_generate_embeddings or async_generate_embedding calls
\* _generate_single_embedding(text)
GenerateSingleEmbedding(text) ==
    /\ rpc = "idle"
    /\ rpc' = "attempt"
    /\ rtext' = text
    /\ attempt_number' = 1
    /\ UNCHANGED <<posts, slept, rresult, NotRetry>>

\* one attempt: the request is sent and answered; the decorator returns the
\* vector, reraises the exception, or goes to sleep before the next attempt
Attempt ==
    /\ rpc = "attempt"
    /\ \E outcome \in RequestOutcomes :
         /\ posts' = Append(posts, outcome)
         /\ IF outcome = "ok"
            THEN /\ rpc' = "returned"
                 /\ rresult' = [kind |-> "vector", exception |-> ""]
            ELSE IF \/ ~retry_if_exception_type(ExceptionOf(outcome))
                    \/ stop_after_attempt(attempt_number)
            THEN /\ rpc' = "raised"
                 /\ rresult' = [kind |-> "raised", exception |-> ExceptionOf(outcome)]
            ELSE /\ rpc' = "sleeping"
                 /\ UNCHANGED rresult
    /\ UNCHANGED <<rtext, attempt_number, slept, NotRetry>>

\* the sleep between two attempts ends
Wake ==
    /\ rpc = "sleeping"
    /\ \E exponent \in {attempt_number - 1, attempt_number} :
           slept' = Append(slept, wait_exponential(exponent))
    /\ attempt_number' = attempt_number + 1
    /\ rpc' = "attempt"
    /\ UNCHANGED <<rtext, posts, rresult, NotRetry>>

RetryInit ==
    /\ rpc = "idle"
    /\ rtext = <<>>
    /\ attempt_number = 0
    /\ posts = <<>>
    /\ slept = <<>>
    /\ rresult = NotCalled

RetryNext ==
    \/ \E text \in EmbedTexts : GenerateSingleEmbedding(text)
    \/ Attempt
    \/ Wake

(***************************************************************************)
(* The embedding client: the tasks of one _batch_generate_embeddings call, *)
(* each a call of _generate_single_embedding under its retry decorator,    *)
(* with the semaphore and the rate limiting.  Time passes in ticks.        *)
(***************************************************************************)
\* a semaphore that never makes a task wait
locked_never(value) == FALSE

\* asyncio.Semaphore.locked(): no permit is left
locked(value) == value = 0

\* one request outcome of each kind the decorator tells apart: a vector, an
\* exception it retries, an exception it does not retry
TaskOutcomes == {"ok", "timeout", "http_404"}

NewTask == [pc |-> "acquire", attempt |-> 1, remaining |-> 0]

InFlight == {i \in 1..Len(gtasks) : gtasks[i].pc = "request"}

\* the tasks inside `async with self.semaphore`
Holders == {i \in 1..Len(gtasks) : gtasks[i].pc \in {"sleeping", "request"}}

\* _batch_generate_embeddings: the tasks of the (only) chunk of n texts
BatchGenerateEmbeddings(n) ==
    /\ gpc = "idle"
    /\ gpc' = "gather"
    /\ gtasks' = [i \in 1..n |-> NewTask]
    /\ UNCHANGED <<permits, since_last, too_close, NotGather>>

\* the request of task i is sent: self.last_request_time = loop.time(), then
\* session.post
SendRequest(i) ==
    /\ gtasks' = [gtasks EXCEPT ![i].pc = "request", ![i].remaining = 0]
    /\ since_last' = 0
    /\ too_close' = (too_close \/ since_last < DelayTicks)

\* async with self.semaphore, then _apply_async_rate_limiting up to its sleep:
\* without sleep the request is sent at once
AcquireSemaphore(i) ==
    /\ gpc = "gather"
    /\ gtasks[i].pc = "acquire"
    /\ ~locked(permits)
    /\ permits' = permits - 1
    /\ IF since_last < DelayTicks
       THEN /\ gtasks' = [gtasks EXCEPT ![i].pc = "sleeping",
                                        ![i].remaining = DelayTicks - since_last]
            /\ UNCHANGED <<since_last, too_close>>
       ELSE SendRequest(i)
    /\ UNCHANGED <<gpc, NotGather>>

\* the sleep of the rate limiting is over
RateLimitWake(i) ==
    /\ gpc = "gather"
    /\ gtasks[i].pc = "sleeping"
    /\ gtasks[i].remaining = 0
    /\ SendRequest(i)
    /\ UNCHANGED <<gpc, permits, NotGather>>

\* the request of task i is answered or fails; the semaphore is released and
\* the decorator returns, reraises, or sleeps before the next attempt
RequestEnds(i) ==
    /\ gpc = "gather"
    /\ gtasks[i].pc = "request"
    /\ permits' = permits + 1
    /\ \E outcome \in TaskOutcomes :
         gtasks' =
           [gtasks EXCEPT ![i] =
              IF outcome = "ok"
              THEN [@ EXCEPT !.pc = "done"]
              ELSE IF \/ ~retry_if_exception_type(ExceptionOf(outcome))
                      \/ stop_after_attempt(gtasks[i].attempt)
              THEN [@ EXCEPT !.pc = "done"]
              ELSE [@ EXCEPT !.pc = "backoff", !.remaining = DelayTicks]]
    /\ UNCHANGED <<gpc, since_last, too_close, NotGather>>

\* the sleep between two attempts is over; it lasts a second or more, which
\* is more than request_delay
BackoffEnds(i) ==
    /\ gpc = "gather"
    /\ gtasks[i].pc = "backoff"
    /\ gtasks[i].remaining = 0
    /\ gtasks' = [gtasks EXCEPT ![i].pc = "acquire", ![i].attempt = @ + 1]
    /\ UNCHANGED <<gpc, permits, since_last, too_close, NotGather>>

\* the clock advances by one tick
Tick ==
    /\ gpc = "gather"
    /\ since_last' = Min(since_last + 1, DelayTicks)
    /\ gtasks' = [i \in 1..Len(gtasks) |->
                     IF gtasks[i].remaining > 0
                     THEN [gtasks[i] EXCEPT !.remaining = @ - 1]
                     ELSE gtasks[i]]
    /\ <<since_last', gtasks'>> # <<since_last, gtasks>>
    /\ UNCHANGED <<gpc, permits, too_close, NotGather>>

\* asyncio.gather returned: every task has ended
GatherReturns ==
    /\ gpc = "gather"
    /\ \A i \in 1..Len(gtasks) : gtasks[i].pc = "done"
    /\ gpc' = "returned"
    /\ UNCHANGED <<gtasks, permits, since_last, too_close, NotGather>>

\* the first request of a client comes long after last_request_time = 0.0
GatherInit ==
    /\ gpc = "idle"
    /\ gtasks = <<>>
    /\ permits = MAX_BATCH_CONCURRENCY
    /\ since_last = DelayTicks
    /\ too_close = FALSE

GatherNext ==
    \/ \E n \in 1..MaxTasks : BatchGenerateEmbeddings(n)
    \/ \E i \in 1..Len(gtasks) : AcquireSemaphore(i)
    \/ \E i \in 1..Len(gtasks) : RateLimitWake(i)
    \/ \E i \in 1..Len(gtasks) : RequestEnds(i)
    \/ \E i \in 1..Len(gtasks) : BackoffEnds(i)
    \/ Tick
    \/ GatherReturns

(***************************************************************************)
(* Image units.                                                            *)
(*                                                                         *)
(* An image unit is known by the size of its payload in bytes; the parser  *)
(* fills "data" with the bytes of a PNG, so the payload is never empty.    *)
(***************************************************************************)
ImageSizes ==
    { SMALL_IMAGE_BYTES \div 2, SMALL_IMAGE_BYTES - 1, SMALL_IMAGE_BYTES,
      SMALL_IMAGE_BYTES + 1 }

\* ImageModalProcessor.process_multimodal_content: one call of
\* vision_model_func inside a try block; an exception is noted in the metadata
process_multimodal_content(vision_raises) ==
    [vision_calls |-> 1,
     processed_by |-> "ImageModalProcessor",
     has_visual_analysis |-> ~vision_raises]

\* GenericModalProcessor.generate_description_only: a description made of the
\* type, the file and the page; no model is called
generate_description_only ==
    [vision_calls |-> 0,
     processed_by |-> "GenericModalProcessor",
     has_visual_analysis |-> FALSE]

\* what _process_content_item made of an image unit
HandledImage(by, size, enhanced, returned, embedding) ==
    [by |-> by, size |-> size, vision_calls |-> enhanced.vision_calls,
     processed_by |-> enhanced.processed_by, returned |-> returned,
     embedding |-> embedding]

\* RAGProcessor._process_content_item on an image unit: lines 182-184 hand
\* every image to process_multimodal_content; embedded: _generate_embedding
\* returned a vector rather than None
RAGProcessorProcessImage(size, vision_raises, embedded) ==
    HandledImage("RAGProcessor", size, process_multimodal_content(vision_raises),
                 IF embedded THEN "item" ELSE "None", embedded)

\* CustomRAGProcessor._process_content_item on an image unit: below
\* SMALL_IMAGE_BYTES the unit goes to the generic processor and is returned as
\* the processor describes it, without an embedding; _generate_embedding of
\* this class returns a zero vector where the request fails
CustomRAGProcessorProcessImage(size, vision_raises, embedded) ==
    IF size < SMALL_IMAGE_BYTES
    THEN HandledImage("CustomRAGProcessor", size, generate_description_only,
                      "item", FALSE)
    ELSE HandledImage("CustomRAGProcessor", size,
                      process_multimodal_content(vision_raises), "item", TRUE)

\* the processor was not built: no unit is handled
NotHandled(size, e) ==
    [by |-> "insert_file_details_async", size |-> size, vision_calls |-> 0,
     processed_by |-> "none", returned |-> e, embedding |-> FALSE]

\* process_file of a RAGProcessor, built as in tests/test_rag_integration.py,
\* comes to an image unit
ProcessImageItem(size, vision_raises, embedded) ==
    /\ Len(image_log) < MaxImages
    /\ image_log' = Append(image_log,
                           RAGProcessorProcessImage(size, vision_raises, embedded))
    /\ UNCHANGED NotImage

\* the upload service is given a file with an image unit: it builds a
\* CustomRAGProcessor and calls its process_file
ServiceImageItem(user_name, size, vision_raises, embedded) ==
    /\ Len(image_log) < MaxImages
    /\ image_log' = Append(image_log,
          IF CustomRAGProcessorInit(user_name) = "custom"
          THEN CustomRAGProcessorProcessImage(size, vision_raises, embedded)
          ELSE NotHandled(size, CustomRAGProcessorInit(user_name)))
    /\ UNCHANGED NotImage

ImageInit == image_log = <<>>

ImageNext ==
    \/ \E size \in ImageSizes, vision_raises \in BOOLEAN, embedded \in BOOLEAN :
           ProcessImageItem(size, vision_raises, embedded)
    \/ \E user_name \in Users, size \in ImageSizes, vision_raises \in BOOLEAN,
          embedded \in BOOLEAN :
           ServiceImageItem(user_name, size, vision_raises, embedded)

(***************************************************************************)
(* The splitting of OCR text into blocks.                                  *)
(*                                                                         *)
(* A text is a sequence of sentences, each known by its length (its final  *)
(* full stop included) and by what follows it: a space, a backslash and an *)
(* "s", an empty line, or the end of the text.  Blocks are known by their  *)
(* length.                                                                 *)
(***************************************************************************)
SentenceLens ==
    { OCR_BLOCK_LIMIT \div 4, OCR_BLOCK_LIMIT \div 2, OCR_BLOCK_LIMIT + 50 }

Separators == {"space", "backslash_s", "para"}

SepLen(sep) ==
    CASE sep = "space" -> 1
      [] sep = "backslash_s" -> 2
      [] sep = "para" -> 2
      [] OTHER -> 0

\* the texts: the last sentence is followed by the end of the text
OcrTexts ==
    UNION { { [i \in 1..n |-> [len |-> lens[i],
                               sep |-> IF i = n THEN "end" ELSE seps[i]]] :
                lens \in [1..n -> SentenceLens],
                seps \in [1..(n - 1) -> Separators] } :
            n \in 1..MaxSegments }

\* ocr_text.split('\n\n'), line 662
RECURSIVE split_paragraphs(_, _, _)
split_paragraphs(text, i, paragraph) ==
    IF i > Len(text)
    THEN <<>>
    ELSE IF text[i].sep \in {"para", "end"}
    THEN <<Append(paragraph, [len |-> text[i].len, sep |-> "end"])>>
         \o split_paragraphs(text, i + 1, <<>>)
    ELSE split_paragraphs(text, i + 1, Append(paragraph, text[i]))

\* len(paragraph)
RECURSIVE ParagraphLen(_)
ParagraphLen(paragraph) ==
    IF paragraph = <<>>
    THEN 0
    ELSE Head(paragraph).len + SepLen(Head(paragraph).sep)
         + ParagraphLen(Tail(paragraph))

\* re.split(r'[.!?]+\\s+', paragraph), line 668: the pattern of the raw string
\* is punctuation, a backslash and one or more "s", so a full stop followed by
\* a space separates nothing; the lengths of the pieces
RECURSIVE re_split(_, _, _)
re_split(paragraph, i, piece) ==
    IF i > Len(paragraph)
    THEN <<>>
    ELSE IF paragraph[i].sep = "backslash_s"
    THEN <<piece + paragraph[i].len - 1>> \o re_split(paragraph, i + 1, 0)
    ELSE IF paragraph[i].sep = "end"
    THEN <<piece + paragraph[i].len>>
    ELSE re_split(paragraph, i + 1,
                  piece + paragraph[i].len + SepLen(paragraph[i].sep))

\* current_block.strip() of a block that ends with ". "
Stripped(current_block) ==
    IF current_block > 0 THEN <<current_block - 1>> ELSE <<>>

\* the loop of lines 670-677 over the pieces; current_block is the length of
\* the block being filled
RECURSIVE fill_blocks(_, _, _)
fill_blocks(sentences, i, current_block) ==
    IF i > Len(sentences)
    THEN Stripped(current_block)
    ELSE IF current_block + sentences[i] < OCR_BLOCK_LIMIT
    THEN fill_blocks(sentences, i + 1, current_block + sentences[i] + 2)
    ELSE Stripped(current_block) \o fill_blocks(sentences, i + 1, sentences[i] + 2)

\* the blocks of one paragraph, each with the paragraph it comes from
BlocksOfParagraph(paragraph, k) ==
    IF ParagraphLen(paragraph) > OCR_PARAGRAPH_LIMIT
    THEN LET lens == fill_blocks(re_split(paragraph, 1, 0), 1, 0)
         IN  [j \in 1..Len(lens) |-> [len |-> lens[j], paragraph |-> k, cut |-> TRUE]]
    ELSE <<[len |-> ParagraphLen(paragraph), paragraph |-> k, cut |-> FALSE]>>

\* DocumentParser._split_ocr_text_into_blocks
RECURSIVE blocks_of_paragraphs(_, _)
blocks_of_paragraphs(paragraphs, k) ==
    IF k > Len(paragraphs)
    THEN <<>>
    ELSE BlocksOfParagraph(paragraphs[k], k) \o blocks_of_paragraphs(paragraphs, k + 1)

split_ocr_text_into_blocks(text) ==
    blocks_of_paragraphs(split_paragraphs(text, 1, <<>>), 1)

NotSplit == <<[len |-> 0, paragraph |-> 0, cut |-> FALSE]>>

\* one call of _split_ocr_text_into_blocks
SplitOcrTextIntoBlocks(text) ==
    /\ ocr_text = <<>>
    /\ ocr_text' = text
    /\ ocr_blocks' = split_ocr_text_into_blocks(text)
    /\ UNCHANGED NotOcr

OcrInit ==
    /\ ocr_text = <<>>
    /\ ocr_blocks = NotSplit

OcrNext == \E text \in OcrTexts : SplitOcrTextIntoBlocks(text)

(***************************************************************************)
(* Specifications.                                                         *)
(***************************************************************************)
IngestInit ==
    /\ ipc = "idle"
    /\ cur = NoFile
    /\ raw_content = <<>>
    /\ next_unit = 1
    /\ processed_content = <<>>
    /\ handed = <<>>
    /\ store = <<>>
    /\ store_error = FALSE
    /\ qcalls = <<>>
    /\ qskipped = <<>>
    /\ qpairs = 0
    /\ iret = NoResult
    /\ rag_processor = "None"
    /\ outcomes = <<>>

Init ==
    /\ EmbedInit /\ IngestInit /\ QaInit /\ CollectionInit /\ DocumentsInit
    /\ ParserIdle /\ RetryInit /\ GatherInit /\ ImageInit /\ OcrInit
    /\ FileDataInit

IngestNext ==
    \/ \E file \in Files : ProcessFile(file)
    \/ \E file \in Files : ParseDocument(file)
    \/ ProcessContentItem
    \/ StoreContentBatch
    \/ ProcessFileQuestionnaires
    \/ \E items \in QItemLists : GenerateAndPrintQuestionnaires(items)
    \/ PatchRagProcessor
    \/ \E user_name \in Users, created \in BOOLEAN :
           InsertFileDetailsAsync(user_name, created)

\* the embedding client on its own
SpecEmbed == Init /\ [][EmbedNext]_vars

\* the per-page questionnaire generator on the answers of the analysis function
SpecQa == Init /\ [][QaNext]_vars

\* the set-up of the collections of the vector store
SpecCollection == Init /\ [][CollectionNext]_vars

\* sequences of insert_batch calls
SpecInsert == Init /\ [][InsertNext]_vars

\* an insert_batch followed by a search_similar_content
SpecSearch == Init /\ [][SearchNext]_vars

\* the classification of a block of text, for every block
ClassifyInit ==
    /\ EmbedInit /\ IngestInit /\ QaInit /\ CollectionInit /\ DocumentsInit
    /\ ParserInit /\ RetryInit /\ GatherInit /\ ImageInit /\ OcrInit
    /\ FileDataInit

SpecClassify == ClassifyInit /\ [][ParserNext]_vars

\* a call of _generate_single_embedding; a request is answered or times out
\* and a sleep ends, so no step of the call is put off for ever
SpecRetry == Init /\ [][RetryNext]_vars /\ WF_vars(RetryNext)

\* the tasks of a batch call; a request is answered or times out and a sleep
\* ends, so no step is put off for ever
SpecGather == Init /\ [][GatherNext]_vars /\ WF_vars(GatherNext)

\* ingestion runs: the parser, the orchestrator, the generator and the service
Spec == Init /\ [][IngestNext]_vars

\* image units coming to the content-item step
SpecImage == Init /\ [][ImageNext]_vars

\* calls of the OCR text splitter
SpecOcr == Init /\ [][OcrNext]_vars

(***************************************************************************)
(* Claims about ingestion runs.                                            *)
(***************************************************************************)
\* the run of process_file is past its loop over the units
PastUnitLoop ==
    \/ ipc \in {"store", "quest"}
    \/ ipc = "returned" /\ iret.by = "process_file" /\ raw_content # <<>>

\* the embedding generation of unit i raised
EmbeddingRaised(i) == ~outcomes[i].analysis_raises /\ IsExc(outcomes[i].out)

\* unit i was analysed and embedded
UnitSucceeded(i) == ~outcomes[i].analysis_raises /\ PassesQuality(outcomes[i].out)

HandedUnits == {handed[j].unit : j \in 1..Len(handed)}

C4_StoreFailureSurfaced ==
    (store_error /\ ipc = "returned" /\ iret.by = "process_file") =>
        iret.kind = "raised"

\* C5: the content of a user is written only to '<user_name>_collection'.
C5_PerUserCollection ==
    \A i \in 1..Len(store) : store[i].collection = <<cur.owner, "_collection">>

\* the parser fails on the file of the run: the parse step throws, or the
\* extension is not one the parser reads
ParseFailed ==
    /\ cur.exists
    /\ cur.throws \/ cur.ext \notin ({".pdf"} \cup ImageExtensions)

InProcessFile ==
    \/ ipc \in {"units", "store", "quest"}
    \/ ipc \in {"returned", "raised"} /\ iret.by = "process_file"

C8_ParseFailureMapping ==
    (iret.by = "parse_document" /\ ipc \in {"parsed", "raised"}) =>
        IF ~cur.exists
        THEN iret.kind = "raised" /\ iret.err = "FileProcessingError"
        ELSE IF cur.ext \notin ({".pdf"} \cup ImageExtensions)
        THEN iret.kind = "raised" /\ iret.err = "UnsupportedFormatError"
        ELSE cur.throws => iret.kind = "raised" /\ iret.err = "ParserError"

\* a run that generates questionnaires for the items of processed_content ended
QuestionnairesRan ==
    /\ ipc = "returned"
    /\ iret.kind = "list"
    /\ iret.by \in {"process_file", "generate_and_print_questionnaires",
                    "insert_file_details_async"}

\* every unit of the group of key k has a blank text
GroupAllBlank(k) ==
    \A i \in 1..Len(processed_content) :
        GroupKey(processed_content[i]) = k => IsBlank(processed_content[i].text_content)

\* the generation calls made for the group of key k
CallsOf(k) ==
    {c \in 1..Len(qcalls) : <<qcalls[c].source_file, qcalls[c].page_id>> = k}

Contains(big, small) ==
    \E o \in 0..(Len(big) - Len(small)) : SubSeq(big, o + 1, o + Len(small)) = small

\* C9: exactly one generation call is made per (source_file, page_id) group
\* with non-empty text, never one per unit, and the call receives the text of
\* every unit of the group.
C9_OneCallPerGroup ==
    QuestionnairesRan =>
        \A i \in 1..Len(processed_content) :
            LET k == GroupKey(processed_content[i])
            IN  ~GroupAllBlank(k) =>
                    /\ Cardinality(CallsOf(k)) = 1
                    /\ \A c \in CallsOf(k) :
                           Contains(qcalls[c].text_content,
                                    processed_content[i].text_content)

\* generate_and_print_questionnaires ran on the items of processed_content
GeneratorRan ==
    /\ ipc = "returned"
    /\ iret.by \in {"process_file", "generate_and_print_questionnaires"}
    /\ processed_content # <<>>

\* C10: a group whose consolidated text is empty or whitespace is skipped: no
\* generation call is made for it, a warning is logged, the run returns
\* without an exception and the group contributes no pairs.
C10_BlankGroupSkipped ==
    GeneratorRan =>
        /\ iret.kind = "list"
        /\ \A i \in 1..Len(processed_content) :
               LET k == GroupKey(processed_content[i])
               IN  GroupAllBlank(k) =>
                       /\ CallsOf(k) = {}
                       /\ \E w \in 1..Len(qskipped) : qskipped[w] = k
        /\ (\A i \in 1..Len(processed_content) :
                GroupAllBlank(GroupKey(processed_content[i]))) => qpairs = 0

\* the generator ran on a group of whitespace text next to a group with text
C10_Witness ==
    /\ ipc = "returned"
    /\ iret.by = "generate_and_print_questionnaires"
    /\ \E i \in 1..Len(processed_content) :
           /\ processed_content[i].text_content = <<" ">>
           /\ GroupAllBlank(GroupKey(processed_content[i]))
           /\ CallsOf(GroupKey(processed_content[i])) = {}
    /\ qcalls # <<>>

(***************************************************************************)
(* Claims about the answers of the analysis function.                      *)
(***************************************************************************)
QaReturned == qa_pairs.kind # "none"

\* C11: the per-page questionnaire generator returns between 0 and 3 QA pairs
\* for every answer of the analysis function, also for a JSON array of more
\* than 3 objects.
C11_AtMostThreePairs ==
    QaReturned => qa_pairs.kind = "list" /\ Len(qa_pairs.pairs) <= 3

\* the '[...]' substrings of s, as pairs of positions
Brackets(s) == {ij \in OpenAt(s) \X CloseAt(s) : ij[1] < ij[2]}

\* the widest '[...]' substring of s
Widest(s) ==
    LET ij == CHOOSE w \in Brackets(s) :
                  \A o \in Brackets(s) : o[2] - o[1] <= w[2] - w[1]
    IN  SubSeq(s, ij[1], ij[2])

\* the pairs taken from a parsed value: its objects when it is an array of
\* objects, none otherwise
PairsOf(v) ==
    IF v.t = "arr" /\ \A i \in 1..Len(v.items) : v.items[i].t = "obj"
    THEN v.items ELSE <<>>

\* the analysis function answered and the generator returned or raised
QaAnswered ==
    QaReturned /\ response_content.text # <<>> /\ ~response_content.raised

\* C12: if the answer parses as JSON the parsed value is used; otherwise the
\* widest '[...]' substring is reparsed; if that fails too the page yields
\* zero pairs; no exception escapes the per-page generator.
C12_ParseThenWidestThenNone ==
    QaAnswered =>
        LET s == response_content.response
        IN  /\ qa_pairs.kind = "list"
            /\ qa_pairs.pairs =
                 IF json_loads(s).ok THEN PairsOf(json_loads(s).val)
                 ELSE IF Brackets(s) # {} /\ json_loads(Widest(s)).ok
                 THEN PairsOf(json_loads(Widest(s)).val)
                 ELSE <<>>

\* the answer does not parse, its widest '[...]' substring does and gives pairs
C12_Witness ==
    /\ QaAnswered
    /\ ~json_loads(response_content.response).ok
    /\ Brackets(response_content.response) # {}
    /\ json_loads(Widest(response_content.response)).ok
    /\ qa_pairs.pairs # <<>>

(***************************************************************************)
(* Claims about the vector store.                                          *)
(***************************************************************************)
Issued(run, request) == \E r \in 1..Len(run.requests) : run.requests[r].op = request

RECURSIVE AllIds(_)
\* the ids returned by the calls, one after the other
AllIds(calls) ==
    IF calls = <<>> THEN <<>> ELSE Head(calls).ids \o AllIds(Tail(calls))

RECURSIVE RecordsIn(_, _)
\* the number of records of the calls on a store
RecordsIn(calls, st) ==
    IF calls = <<>> THEN 0
    ELSE (IF Head(calls).store = st THEN Len(Head(calls).records) ELSE 0)
         + RecordsIn(Tail(calls), st)

NoCallRaised(st) ==
    \A k \in 1..Len(insert_calls) :
        insert_calls[k].store = st => ~insert_calls[k].raised

InsertedType(id) ==
    LET k == CHOOSE k \in 1..Len(insert_calls) : id \in Range(insert_calls[k].ids)
        i == CHOOSE i \in 1..Len(insert_calls[k].ids) : insert_calls[k].ids[i] = id
    IN  insert_calls[k].records[i].content_type

\* C15: a search returns a list; with a content-type allow-list every record
\* of it was inserted with a content_type of the allow-list, with a source
\* filter every record of it has that source_file, with both filters both.
C15_SearchHonoursFilters ==
    search_result.kind # "none" =>
        /\ search_result.kind = "list"
        /\ \A doc \in search_result.docs :
               /\ search_result.content_types # <<>> =>
                      InsertedType(doc.id) \in Range(search_result.content_types)
               /\ search_result.source_filter # "None" =>
                      doc.source_file = search_result.source_filter

\* the run is past the storage step of a file with units
PastStore ==
    \/ ipc = "quest"
    \/ ipc = "returned" /\ iret.by = "process_file" /\ raw_content # <<>>

\* every unit of the file was analysed and embedded
NoUnitFailed ==
    /\ Len(outcomes) = Len(raw_content)
    /\ \A i \in 1..Len(outcomes) : UnitSucceeded(i)

\* the decimal numeral of a one-digit page number
StringForm(n) == <<<<"1", "2", "3", "4", "5", "6", "7", "8", "9">>[n]>>

Classified == content_item.kind = "item"

\* C17: every text with more than 3 pipe characters is classified 'table',
\* whatever equation marker it also has.
C17_PipesGiveTable ==
    (Classified /\ CountOf(content_item.text, "|") > 3) =>
        content_item.type = "table"

\* a short text with four pipe characters and the marks of an equation
C17_Witness ==
    /\ Classified
    /\ CountOf(content_item.text, "|") = 4
    /\ HasSubstring(content_item.text, <<"x", "=">>)
    /\ Len(content_item.text) < 300
    /\ content_item.type = "table"

HasTableMarker(text) ==
    \/ CountOf(text, "|") > 3
    \/ \E keyword \in TableKeywords : HasSubstring(Lower(text), keyword)

HasEquationSymbol(text) == \E i \in 1..Len(text) : text[i] \in equation_patterns

\* letter-digit, digit-letter, or a letter followed by '='
HasAdjacency(text) ==
    \E i \in 1..Len(text) - 1 :
        \/ IsLetter(text[i]) /\ IsDigit(text[i + 1])
        \/ IsDigit(text[i]) /\ IsLetter(text[i + 1])
        \/ IsLetter(text[i]) /\ text[i + 1] = "="

\* C18: every text shorter than 300 characters without table marker that has
\* an equation symbol and a letter/number adjacency is classified 'equation'.
C18_ShortEquation ==
    ( /\ Classified
      /\ Len(content_item.text) < 300
      /\ ~HasTableMarker(content_item.text)
      /\ HasEquationSymbol(content_item.text)
      /\ HasAdjacency(content_item.text) ) =>
        content_item.type = "equation"

\* a text of 299 characters ending with a letter followed by '='
C18_Witness ==
    /\ Classified
    /\ Len(content_item.text) = 299
    /\ content_item.text[298] = "x"
    /\ content_item.text[299] = "="
    /\ ~HasTableMarker(content_item.text)
    /\ content_item.type = "equation"

HasEquationMarker(text) ==
    \/ HasEquationSymbol(text) /\ Len(text) < 300 /\ HasAdjacency(text)
    \/ \E keyword \in EquationKeywords : HasSubstring(Lower(text), keyword)

\* C19: the type of a classified text is one of 'text', 'table', 'equation',
\* and it is 'text' when the text has neither table nor equation marker.
C19_DefaultIsText ==
    Classified =>
        /\ content_item.type \in {"text", "table", "equation"}
        /\ ( ~HasTableMarker(content_item.text)
             /\ ~HasEquationMarker(content_item.text) ) =>
               content_item.type = "text"

(***************************************************************************)
(* Claims about the retries of the embedding client.                       *)
(***************************************************************************)
\* the failures the claim calls transient
Transient == {"network_error", "timeout", "decode_error", "http_503"}

\* the k-th request was the last sent so far and failed transiently
TransientFailureAt(k) == Len(posts) = k /\ posts[k] \in Transient

RetrySafe ==
    /\ Len(posts) <= 3
    /\ Len(posts) >= 1 =>
           /\ Len(slept) >= Len(posts) - 1
           /\ \A k \in 1..(Len(posts) - 1) : slept[k] >= 1
    /\ \A k \in 1..2 : TransientFailureAt(k) => rpc \in {"sleeping", "attempt"}
    /\ (Len(posts) = 3 /\ posts[3] # "ok") =>
           rpc = "raised" /\ rresult.exception = ExceptionOf(posts[3])

\* C20: a call sends at most 3 posts; after a transient failure of
\* request 1 or 2 the call waits at least a second and sends the next
\* request; a failure of request 3 ends the call with that exception.
C20_AtMostThreeAttempts ==
    /\ []RetrySafe
    /\ \A k \in 1..2 : TransientFailureAt(k) ~> (Len(posts) = k + 1)

\* a timeout, then a decode error, then a third failure that ends the call
C20_Witness ==
    /\ posts = <<"timeout", "decode_error", "http_503">>
    /\ Len(slept) = 2
    /\ rpc = "raised"

\* the replies with a status of the 4xx class
ClientErrorStatus == {"http_404", "http_400"}

\* C21: after a reply with HTTP 404 or another 4xx status the call sends no
\* further request: such a reply is the last one of the call.
C21_NoRetryAfter4xx ==
    \A k \in 1..Len(posts) : posts[k] \in ClientErrorStatus => Len(posts) = k

(***************************************************************************)
(* Claims about the tasks of a batch embedding call.                       *)
(***************************************************************************)
\* C22: at most 2 requests of the client are in flight, the permits taken are
\* those of the tasks inside the semaphore, and a task in backoff (or waiting
\* for the semaphore, or ended) is not among them.
C22_AtMostTwoInFlight ==
    /\ Cardinality(InFlight) <= 2
    /\ permits >= 0
    /\ permits + Cardinality(Holders) = 2
    /\ \A i \in 1..Len(gtasks) : gtasks[i].pc = "backoff" => i \notin Holders

\* three tasks: two requests in flight, the third task in backoff
C22_Witness ==
    /\ Len(gtasks) = 3
    /\ Cardinality(InFlight) = 2
    /\ permits = 0
    /\ \E i \in 1..3 : gtasks[i].pc = "backoff"

\* C23: no request of the client is sent less than request_delay after the
\* request before it.
C23_RequestsSpacedByDelay == ~too_close

\* every task has made at most 3 attempts, and once the call has returned
\* every task has ended and every permit is free
GatherSafe ==
    /\ \A i \in 1..Len(gtasks) : gtasks[i].attempt <= 3
    /\ gpc = "returned" =>
           /\ permits = 2
           /\ \A i \in 1..Len(gtasks) : gtasks[i].pc = "done"

\* C29: a batch call that was started returns, whatever the service answers;
\* no task makes more than 3 attempts and on return all permits are free.
C29_BatchCallTerminates ==
    /\ []GatherSafe
    /\ (gpc = "gather") ~> (gpc = "returned")

\* the call of three texts returned; one task ended at its third attempt,
\* another at its first
C29_Witness ==
    /\ gpc = "returned"
    /\ Len(gtasks) = 3
    /\ \E i \in 1..3 : gtasks[i].attempt = 3
    /\ \E i \in 1..3 : gtasks[i].attempt = 1
    /\ permits = 2

(***************************************************************************)
(* Claims about the vectors the units carry.                               *)
(***************************************************************************)
\* C24: every vector the embedding step gives to a unit has exactly the
\* configured dimension and passes the quality check: every vector of the
\* list generate_embeddings returns (batch path) and the vector
\* async_generate_embedding returns for a text (single-item path).
C24_CarriedVectorsValid ==
    epc = "returned" =>
        /\ eret.kind = "list" =>
               \A i \in 1..Len(eret.list) : PassesQuality(eret.list[i])
        /\ (eret.kind = "vec" /\ ~IsBlank(contents[1])) => PassesQuality(eret.vec)


\* process_file has called the questionnaire generator
GeneratorCalled ==
    iret.by = "process_file" /\ (qcalls # <<>> \/ qskipped # <<>>)

\* a step in which process_file calls the questionnaire generator
QuestionnaireStep ==
    cur # NoFile /\ (qcalls' # qcalls \/ qskipped' # qskipped)

\* C25: questionnaire generation is best-effort: process_file calls it only
\* after _store_content_batch was called with the processed units, the call
\* leaves the list of processed units as it was, and whatever goes wrong inside
\* it (the analysis call raises, the answer is prose or wrongly shaped)
\* process_file returns that list
C25_QuestionnairesBestEffort ==
    /\ [](GeneratorCalled =>
            /\ ipc = "returned"
            /\ iret.kind = "list"
            /\ iret.list = processed_content)
    /\ [][QuestionnaireStep =>
            /\ ipc = "quest"
            /\ handed = EmbeddingsData(processed_content)
            /\ handed # <<>>
            /\ store_error \/ store # <<>>
            /\ processed_content' = processed_content]_vars

\* process_file returned its units although a questionnaire call failed inside
C25_Witness ==
    /\ ipc = "returned"
    /\ iret.by = "process_file"
    /\ iret.list # <<>>
    /\ \E c \in 1..Len(qcalls) : qcalls[c].failed


\* C27: for an image unit with a payload below 1024 bytes the vision analysis
\* function is not invoked and the generic processor handles the unit; for an
\* image unit of 1024 bytes or more the vision analysis function is invoked
\* exactly once
C27_SmallImagesSkipVision ==
    \A i \in 1..Len(image_log) :
        image_log[i].returned \in {"item", "None"} =>
            IF image_log[i].size < 1024
            THEN /\ image_log[i].vision_calls = 0
                 /\ image_log[i].processed_by = "GenericModalProcessor"
            ELSE image_log[i].vision_calls = 1

\* the length a block filled below the limit can come to: the last sentence
\* taken in and its full stop
AboutBlockLimit == OCR_BLOCK_LIMIT + 1

\* C28: every block made from a paragraph of more than 500 characters is at
\* most about 400 characters long, and a paragraph of at most 500 characters
\* gives one block, the paragraph itself
C28_BlocksAtMostLimit ==
    \A j \in 1..Len(ocr_blocks) :
        IF ocr_blocks[j].cut
        THEN ocr_blocks[j].len <= AboutBlockLimit
        ELSE /\ ocr_blocks[j].len <= 500
             /\ \A k \in 1..Len(ocr_blocks) :
                    ocr_blocks[k].paragraph = ocr_blocks[j].paragraph => k = j


\* C26: the saved file summary is marked processed, with the count of QA
\* pairs, only for a file that has units, all of them embedded and handed to
\* the vector store, and stored there
C26_ProcessedOnlyWhenStored ==
    (file_data.is_processed /\ file_data.updated) =>
        /\ processed_content # <<>>
        /\ handed # <<>>
        /\ Len(handed) = Len(processed_content)
        /\ store # <<>>
        /\ ~store_error


====
